---- MODULE Spec2Model ----
(***************************************************************************)
(* Model of the summarization and RAG map-reduce pipeline of the email     *)
(* summarizer service (app/services/email.py), its configuration           *)
(* (app/config.py), its typed errors (app/exceptions.py) and the           *)
(* POST /messages/{message_id}/summary route (app/routes/messages.py).     *)
(*                                                                         *)
(* Texts are Python strings.  The LLM, the tokenizer, the text splitter    *)
(* and Redis are external: an LLM call returns one of a few texts or       *)
(* raises, Redis is a key-value map whose entries may expire, the size of  *)
(* a text is the sum of the sizes of the pieces it was joined from.        *)
(***************************************************************************)
EXTENDS Integers, Sequences, FiniteSets, TLC

(***************************************************************************)
(* Bounds of the model.                                                    *)
(***************************************************************************)
MaxChunks == 2          \* chunks of the documents handed to one call
MaxCalls == 2           \* pipeline calls started in one behaviour
MaxExpiries == 1        \* cache entries that reach their TTL in one behaviour
LongOutputTokens == 1100000  \* tokens of the long text an LLM call may return

(***************************************************************************)
(* Settings (app/config.py).                                               *)
(***************************************************************************)
RAG_TOKEN_MAX == 16000
DEFAULT_CHUNK_OVERLAP == 200
CHUNK_SIZE_RATIO_PERCENT == 2
CACHE_EXPIRATION_SECONDS == 3600
MAP_CACHE_EXPIRATION_SECONDS == 3600
HardCapChunkSize == 8192
MinChunkOverlap == 32

MODEL_CONTEXT_WINDOWS ==
    ("gemini-2.5-flash" :> 1048576) @@ ("gpt-4o-mini" :> 128000) @@ ("gpt-4.1" :> 1000000)

MODEL_TOKENIZERS ==
    ("gemini-2.5-flash" :> "sentencepiece") @@ ("gpt-4o-mini" :> "o200k_base")
        @@ ("gpt-4.1" :> "o200k_base")

\* The settings a process can be started with: the provider and the model
\* name of each provider (environment overrides of the defaults).
DefaultSettings ==
    [LLM_PROVIDER |-> "gemini", OPENAI_MODEL_NAME |-> "gpt-4o-mini",
     GEMINI_MODEL_NAME |-> "gemini-2.5-flash", OLLAMA_MODEL |-> "llama2"]

SettingsChoices ==
    {DefaultSettings,
     [DefaultSettings EXCEPT !.LLM_PROVIDER = "openai"],
     [DefaultSettings EXCEPT !.LLM_PROVIDER = "openai", !.OPENAI_MODEL_NAME = "gpt-4.1"],
     [DefaultSettings EXCEPT !.LLM_PROVIDER = "ollama"]}

\* dict.get(key, default)
DictGet(d, k, default) == IF k \in DOMAIN d THEN d[k] ELSE default

(***************************************************************************)
(* Texts.                                                                  *)
(***************************************************************************)
None == "<None>"
Sentinel == "No relevant information found in the provided documents."
RagSeparator == "\n\n---\n\n"
SumSeparator == "\n\n"

PageContents == {"ab", "a+ab"}           \* page_content of a document
Questions == {"bq", "q"}
MapOutputs == {"", " ", "x", "XL"}        \* what a RAG map call may return
SummaryMapOutputs == {"m"}                \* what a summary map call may return
SummaryOutputs == {"", "S1", "S2"}        \* what the summary reduce may return
AnswerOutputs == {"answer"}               \* what the final RAG reduce may return

\* str.strip(): the texts of the model that consist of whitespace only
\* become empty, the others have no leading or trailing whitespace.
Strip(s) == IF s = " " THEN "" ELSE s

\* Truth value of a Python object that is None or a str.
Truthy(s) == s # None /\ s # ""

\* Number of characters of a text piece.
CharLen(s) ==
    CASE s = "" -> 0
      [] s = "XL" -> 4 * LongOutputTokens
      [] s = RagSeparator -> 7
      [] s = SumSeparator -> 2
      [] OTHER -> Len(s)

\* Number of tiktoken tokens of a text piece.
TikTokens(s) ==
    CASE s = "" -> 0
      [] s = "XL" -> LongOutputTokens
      [] s = RagSeparator -> 3
      [] s = SumSeparator -> 1
      [] OTHER -> Len(s)

\* len(text) of a text kept as the sequence of its pieces.
RECURSIVE CharCount(_)
CharCount(text) ==
    IF text = <<>> THEN 0 ELSE CharLen(Head(text)) + CharCount(Tail(text))

\* len(enc.encode(text)) of a text kept as the sequence of its pieces.
RECURSIVE TokenCount(_)
TokenCount(text) ==
    IF text = <<>> THEN 0 ELSE TikTokens(Head(text)) + TokenCount(Tail(text))

\* sep.join(parts), kept as the sequence of its pieces.
RECURSIVE Join(_, _)
Join(sep, parts) ==
    IF Len(parts) = 0 THEN <<>>
    ELSE IF Len(parts) = 1 THEN <<parts[1]>>
    ELSE <<parts[1], sep>> \o Join(sep, Tail(parts))

CeilDiv(a, b) == (a + b - 1) \div b

(***************************************************************************)
(* Tokenizer and chunk sizer (app/services/email.py).                      *)
(***************************************************************************)
\* _num_tokens: len(text) // 4 for SentencePiece models (no local model
\* file), the tiktoken count otherwise.
NumTokens(text, enc_name) ==
    IF enc_name = "sentencepiece"
    THEN CharCount(text) \div 4
    ELSE TokenCount(text)

\* _get_model_name: the client's model_name, which is the configured name
\* of the selected provider.
GetModelName(s) ==
    IF s.LLM_PROVIDER = "openai" THEN s.OPENAI_MODEL_NAME
    ELSE IF s.LLM_PROVIDER = "gemini" THEN s.GEMINI_MODEL_NAME
    ELSE s.OLLAMA_MODEL

Min(a, b) == IF a < b THEN a ELSE b
Max(a, b) == IF a > b THEN a ELSE b

ContextWindow(model_name) == DictGet(MODEL_CONTEXT_WINDOWS, model_name, RAG_TOKEN_MAX)

\* Variant of ChunkSize that forgets the hard cap of 8192 tokens.
ChunkSizeUncapped(model_name) ==
    (ContextWindow(model_name) * CHUNK_SIZE_RATIO_PERCENT) \div 100

\* chunk_size = min(8192, int(ctx_window * settings.CHUNK_SIZE_RATIO))
ChunkSize(model_name) ==
    Min(HardCapChunkSize, (ContextWindow(model_name) * CHUNK_SIZE_RATIO_PERCENT) \div 100)

\* overlap = min(settings.DEFAULT_CHUNK_OVERLAP, max(32, chunk_size // 10))
ChunkOverlap(model_name) ==
    Min(DEFAULT_CHUNK_OVERLAP, Max(MinChunkOverlap, ChunkSize(model_name) \div 10))

EncodingName(model_name) == DictGet(MODEL_TOKENIZERS, model_name, "cl100k_base")

\* _get_text_splitter: the splitter's unit (characters for SentencePiece
\* models, tokens otherwise), chunk size and overlap.
\* The record also keeps the locals ctx_window, chunk_size and overlap of
\* lines 105-107 the splitter was sized from.
GetTextSplitter(model_name) ==
    LET params == [ctx_window |-> ContextWindow(model_name),
                   chunk_size |-> ChunkSize(model_name),
                   overlap |-> ChunkOverlap(model_name)]
    IN  IF EncodingName(model_name) = "sentencepiece"
        THEN [unit |-> "chars", chunk_size |-> params.chunk_size * 4,
              chunk_overlap |-> params.overlap * 4, params |-> params]
        ELSE [unit |-> "tokens", chunk_size |-> params.chunk_size,
              chunk_overlap |-> params.overlap, params |-> params]

\* text_splitter.split_text(text): the number of windows of chunk_size with
\* the given overlap that cover the text.
SplitTextCount(splitter, text) ==
    LET size == IF splitter.unit = "chars" THEN CharCount(text)
                ELSE TokenCount(text)
    IN  IF size = 0 THEN 0
        ELSE IF size <= splitter.chunk_size THEN 1
        ELSE 1 + CeilDiv(size - splitter.chunk_size,
                         splitter.chunk_size - splitter.chunk_overlap)

\* text_splitter.split_documents([doc]): the chunks of one document.
SplitDocument(page_content) ==
    CASE page_content = "a+ab" -> <<"a", "ab">>
      [] OTHER -> <<page_content>>

RECURSIVE SplitDocuments(_)
SplitDocuments(docs) ==
    IF docs = <<>> THEN <<>>
    ELSE SplitDocument(Head(docs)) \o SplitDocuments(Tail(docs))

\* hashlib.sha256(text.encode()).hexdigest(): injective on the model's texts.
Sha256Hex(text) == "sha256(" \o text \o ")"

RagCacheKey(page_content, question) == "rag_map:" \o Sha256Hex(page_content \o question)
SummaryCacheKey(content) == "summary:" \o Sha256Hex(content)

(***************************************************************************)
(* State.                                                                  *)
(***************************************************************************)
VARIABLES
    settings,    \* the Settings instance loaded at process start
    redis,       \* the Redis store: key -> [value, ex]
    call,        \* per request task: the frame of the pipeline call it runs
    ncalls,      \* pipeline calls started so far
    nexpired,    \* cache entries expired so far
    objects      \* the long-lived objects of the process, by name

vars == <<settings, redis, call, ncalls, nexpired, objects>>

Tasks == {"t1", "t2"}

\* Errors a pipeline call can end with, and the HTTP status each carries
\* (app/exceptions.py); an exception that is not a ServiceError carries none.
NoError == "-"
ProviderError == "ProviderError"
StatusCode(error) ==
    CASE error = "EmailNotFoundError" -> 404
      [] error = "GraphApiError" -> 502
      [] error = "SummarizationError" -> 500
      [] error = "RAGError" -> 500
      [] OTHER -> 0

IdleFrame ==
    [pc |-> "idle", fn |-> "-", question |-> "", context_docs |-> <<>>, content |-> "",
     redis_client |-> FALSE, model_name |-> "", splitter |-> GetTextSplitter(""),
     split_docs |-> <<>>, i |-> 0, batch_inputs |-> <<>>, cached_outputs |-> <<>>,
     pending |-> {}, fresh_outputs |-> <<>>, map_results |-> <<>>,
     combined_results |-> <<>>, estimated_tokens |-> 0, token_limit |-> 0,
     result_chunks |-> 0,
     result |-> None, from_cache |-> FALSE, error |-> NoError,
     \* bookkeeping of what the call did
     chunk_out |-> <<>>, excerpts |-> <<>>, map_calls |-> 0, collapse_calls |-> 0,
     reduce_calls |-> 0, collapse_rounds |-> 0, initial_chunks |-> 0,
     round_sizes |-> <<>>, min_pair |-> 0, failed_stage |-> "-",
     \* what the cache held under the content's key when the call read it
     prior |-> None,
     \* the HTTP route
     message_id |-> "", fetch |-> "-", stub |-> FALSE,
     response |-> [status |-> 0, detail |-> <<>>],
     \* the other operations: the arguments of the call and what its
     \* collaborators do, and what the call logs
     args |-> <<>>, logged |-> <<>>,
     \* the streaming variant: the tokens still to arrive from the reduce
     \* call and the items the generator has yielded
     stream |-> <<>>, yielded |-> <<>>,
     \* the ingestion task: the emails listed and enriched so far, the
     \* arguments of its add_emails calls, the dictionary it returns and
     \* its database session
     emails |-> <<>>, enriched_emails |-> <<>>, add_emails_calls |-> <<>>,
     returned |-> [status |-> "-", ingested_count |-> 0], db |-> "-",
     db_close_calls |-> 0]

\* The objects as they are constructed: TokenValidator.__init__
\* (app/auth/validator.py, lines 15-19) sets jwks_client = None; the
\* application has imported its modules and serves requests.
InitialObjects ==
    [validator |-> [jwks_client |-> None], app |-> "serving",
     \* the rows of the email_embeddings table
     vector_store |-> <<>>,
     \* the module global redis_client of app/database.py (line 14) and
     \* whether the Redis server answers a ping
     redis_client |-> None, redis_available |-> TRUE]

Init ==
    /\ settings \in SettingsChoices
    /\ redis = <<>>
    /\ call = [t \in Tasks |-> IdleFrame]
    /\ ncalls = 0
    /\ nexpired = 0
    /\ objects = InitialObjects

SetFrame(t, frame) == call' = [call EXCEPT ![t] = frame]

\* redis_client.get(key): the stored value, None when the key is absent.
RedisGet(key) == IF key \in DOMAIN redis THEN redis[key].value ELSE None

\* redis_client.set(key, value, ex=ttl)
RedisSet(store, key, value, ttl) == (key :> [value |-> value, ex |-> ttl]) @@ store

\* A frame that ends with a raised exception.
Raise(frame, error, stage) ==
    [frame EXCEPT !.pc = "done", !.error = error, !.failed_stage = stage]

\* A frame that ends with a returned value.
Return(frame, value, cached) ==
    [frame EXCEPT !.pc = "done", !.result = value, !.from_cache = cached]

(***************************************************************************)
(* run_rag_chain (app/services/email.py).                                  *)
(***************************************************************************)
ContextDocLists ==
    {docs \in UNION {[1..n -> PageContents] : n \in 0..MaxChunks} :
        Len(SplitDocuments(docs)) <= MaxChunks}

\* Variant of NonBlank that tests the output itself instead of its strip().
RECURSIVE NonBlankNoStrip(_)
NonBlankNoStrip(outs) ==
    IF outs = <<>> THEN <<>>
    ELSE IF Head(outs) # "" THEN <<Head(outs)>> \o NonBlankNoStrip(Tail(outs))
    ELSE NonBlankNoStrip(Tail(outs))

\* Line 389: the outputs that are not empty after strip().
RECURSIVE NonBlank(_)
NonBlank(outs) ==
    IF outs = <<>> THEN <<>>
    ELSE IF Strip(Head(outs)) # "" THEN <<Head(outs)>> \o NonBlank(Tail(outs))
    ELSE NonBlank(Tail(outs))

\* Line 388: batch_outputs = cached_outputs + fresh_outputs
BatchOutputs(frame) == frame.cached_outputs \o frame.fresh_outputs

\* Variant of NeedsCollapse that never collapses.
NeverCollapse(estimated_tokens, token_limit) == FALSE

\* Line 402: the combined excerpts do not fit the token limit.
NeedsCollapse(estimated_tokens, token_limit) == estimated_tokens > token_limit

\* Lines 388-413: filter and join the map outputs, return the sentinel when
\* nothing is left, estimate the tokens and split for the collapse when the
\* estimate exceeds the limit.
Combine(frame) ==
    LET map_results == NonBlank(BatchOutputs(frame))
        combined_results == Join(RagSeparator, map_results)
        estimated_tokens == NumTokens(combined_results, EncodingName(frame.model_name))
        token_limit == ContextWindow(frame.model_name)
        joined == [frame EXCEPT !.map_results = map_results,
                                !.combined_results = combined_results,
                                !.excerpts = combined_results,
                                !.estimated_tokens = estimated_tokens,
                                !.token_limit = token_limit]
    IN  IF map_results = <<>>
        THEN Return([frame EXCEPT !.map_results = map_results], Sentinel, FALSE)
        ELSE IF NeedsCollapse(estimated_tokens, token_limit)
        THEN [joined EXCEPT
                !.pc = "rag_collapse",
                !.result_chunks = SplitTextCount(frame.splitter, combined_results),
                !.initial_chunks = SplitTextCount(frame.splitter, combined_results)]
        ELSE [joined EXCEPT !.pc = "rag_final"]

\* Where the call goes once the cache lookup loop is over: the map batch is
\* issued for the chunks that missed (all map calls start together), or the
\* batch is skipped when every chunk was answered from the cache.
AfterLookup(frame) ==
    IF frame.batch_inputs # <<>>
    THEN [frame EXCEPT !.pc = "rag_map",
                       !.pending = 1..Len(frame.batch_inputs),
                       !.fresh_outputs = [j \in 1..Len(frame.batch_inputs) |-> None],
                       !.map_calls = Len(frame.batch_inputs)]
    ELSE Combine(frame)

\* Variant of CollectSplits that writes the splits back into the list the
\* caller passed.
CollectSplitsInPlace(frame, split_docs) ==
    [frame EXCEPT !.split_docs = split_docs, !.context_docs = split_docs]

\* Lines 351-353 and 590-592: the splits of every document are collected in
\* a list of the function's own; context_docs is only iterated.
CollectSplits(frame, split_docs) == [frame EXCEPT !.split_docs = split_docs]

\* Lines 344-364: build the client and the splitter, split the documents.
RagStart(t, question, context_docs, redis_client) ==
    /\ call[t].pc \in {"idle", "done"}
    /\ ncalls < MaxCalls
    /\ ncalls' = ncalls + 1
    /\ LET model_name == GetModelName(settings)
           split_docs == SplitDocuments(context_docs)
           entered == [IdleFrame EXCEPT
                        !.pc = "rag_lookup", !.fn = "run_rag_chain",
                        !.args = [context_docs |-> context_docs],
                        !.question = question, !.context_docs = context_docs,
                        !.redis_client = redis_client, !.model_name = model_name,
                        !.splitter = GetTextSplitter(model_name), !.i = 1,
                        !.chunk_out = [j \in 1..Len(split_docs) |-> None]]
           frame == CollectSplits(entered, split_docs)
       IN  SetFrame(t, IF split_docs = <<>> THEN AfterLookup(frame) ELSE frame)
    /\ UNCHANGED <<settings, objects, redis, nexpired>>

\* Lines 365-372: one iteration of the cache lookup loop.
RagLookupStep(frame) ==
    LET d == frame.split_docs[frame.i]
        cache_key == RagCacheKey(d, frame.question)
        cached == IF frame.redis_client THEN RedisGet(cache_key) ELSE None
        next ==
            IF frame.redis_client /\ Truthy(cached)
            THEN [frame EXCEPT !.cached_outputs = Append(@, cached),
                               !.chunk_out[frame.i] = cached,
                               !.i = @ + 1]
            ELSE [frame EXCEPT
                    !.batch_inputs = Append(@, [doc |-> d, hash |-> cache_key,
                                                idx |-> frame.i,
                                                absent |-> cache_key \notin DOMAIN redis]),
                    !.i = @ + 1]
    IN  IF next.i > Len(frame.split_docs) THEN AfterLookup(next) ELSE next

RagLookup(t) ==
    /\ call[t].pc = "rag_lookup"
    /\ SetFrame(t, RagLookupStep(call[t]))
    /\ UNCHANGED <<settings, objects, redis, ncalls, nexpired>>

\* Where the call goes once abatch has returned: lines 384-386 persist the
\* fresh outputs when there is a cache client.
AfterBatch(frame) ==
    IF frame.redis_client
    THEN [frame EXCEPT !.pc = "rag_persist"]
    ELSE Combine(frame)

\* Lines 380-382: the map call of batch input j completes with output out;
\* abatch returns the outputs in the order of its inputs.
RagMapCallDone(t, j, out) ==
    /\ call[t].pc = "rag_map"
    /\ j \in call[t].pending
    /\ LET frame == [call[t] EXCEPT
                        !.pending = @ \ {j},
                        !.fresh_outputs[j] = out,
                        !.chunk_out[call[t].batch_inputs[j].idx] = out]
       IN  SetFrame(t, IF frame.pending = {} THEN AfterBatch(frame) ELSE frame)
    /\ UNCHANGED <<settings, objects, redis, ncalls, nexpired>>

\* Variant of RagMapCallFail that swallows the failure of a map call into an
\* empty extraction and lets the batch go on.
RagMapCallFailSwallowed(t, j) ==
    /\ call[t].pc = "rag_map"
    /\ j \in call[t].pending
    /\ LET frame == [call[t] EXCEPT
                        !.pending = @ \ {j},
                        !.fresh_outputs[j] = "",
                        !.failed_stage = "map"]
       IN  SetFrame(t, IF frame.pending = {} THEN AfterBatch(frame) ELSE frame)
    /\ UNCHANGED <<settings, objects, redis, ncalls, nexpired>>

\* Lines 385-386: for out, meta in zip(fresh_outputs, batch_inputs): set
RECURSIVE PersistAll(_, _, _)
PersistAll(store, batch_inputs, fresh_outputs) ==
    IF batch_inputs = <<>> \/ fresh_outputs = <<>> THEN store
    ELSE PersistAll(RedisSet(store, Head(batch_inputs).hash, Head(fresh_outputs),
                             MAP_CACHE_EXPIRATION_SECONDS),
                    Tail(batch_inputs), Tail(fresh_outputs))

\* Variant of RagMapCallFail that stores the outputs of the batch before it
\* re-raises.
RagMapCallFailPersists(t, j) ==
    /\ call[t].pc = "rag_map"
    /\ j \in call[t].pending
    /\ SetFrame(t, Raise(call[t], ProviderError, "map"))
    /\ redis' = IF call[t].redis_client
                THEN PersistAll(redis, call[t].batch_inputs, call[t].fresh_outputs)
                ELSE redis
    /\ UNCHANGED <<settings, objects, ncalls, nexpired>>

\* Lines 380-382: the map call of batch input j raises; abatch re-raises it
\* and nothing around the call catches it.
RagMapCallFail(t, j) ==
    /\ call[t].pc = "rag_map"
    /\ j \in call[t].pending
    /\ SetFrame(t, Raise(call[t], ProviderError, "map"))
    /\ UNCHANGED <<settings, objects, redis, ncalls, nexpired>>

\* Lines 384-413: store the fresh outputs, then combine the map outputs.
RagPersist(t) ==
    /\ call[t].pc = "rag_persist"
    /\ redis' = PersistAll(redis, call[t].batch_inputs, call[t].fresh_outputs)
    /\ SetFrame(t, Combine(call[t]))
    /\ UNCHANGED <<settings, objects, ncalls, nexpired>>

\* Variant of PairCount that drops the last chunk of an odd list.
PairCountFloor(k) == k \div 2

\* Line 418: len(range(0, len(result_chunks), 2)), the pairs of one round.
PairCount(k) == (k + 1) \div 2

\* Lines 419-422: a pair takes two chunks, the last chunk of an odd list
\* stands alone; the number of chunks the i-th pair (from 0) is built from.
PairSize(k, i) == IF 2 * i + 1 < k THEN 2 ELSE 1

\* Line 415: while len(result_chunks) > 1
CollapseContinues(k) == k > 1

\* Lines 415-431: the chunk counts at the start of each round of the loop
\* and after its last round, when no call raises.
RECURSIVE CollapseLoop(_)
CollapseLoop(k) ==
    IF CollapseContinues(k) THEN <<k>> \o CollapseLoop(PairCount(k)) ELSE <<k>>

\* The collapse calls of the first r rounds of a loop.
RECURSIVE CallsOfRounds(_, _)
CallsOfRounds(sizes, r) ==
    IF r = 0 THEN 0 ELSE PairCount(sizes[r]) + CallsOfRounds(sizes, r - 1)

\* The smallest number of chunks handed to one collapse call in the first
\* r rounds of a loop (0 when there is no call).
RECURSIVE SmallestPair(_, _)
SmallestPair(sizes, r) ==
    IF r = 0 THEN 0
    ELSE LET here == Min(PairSize(sizes[r], 0), PairSize(sizes[r], PairCount(sizes[r]) - 1))
             before == SmallestPair(sizes, r - 1)
         IN  IF before = 0 THEN here ELSE Min(here, before)

\* Lines 415-433: the whole collapse loop (its calls are synchronous, the
\* task is not suspended inside it), every call succeeds;
\* combined_results = result_chunks[0] afterwards.
RagCollapse(t) ==
    /\ call[t].pc = "rag_collapse"
    /\ LET sizes == CollapseLoop(call[t].result_chunks)
           rounds == Len(sizes) - 1
           left == sizes[Len(sizes)]
           frame == [call[t] EXCEPT
                       !.result_chunks = left,
                       !.round_sizes = sizes,
                       !.collapse_rounds = rounds,
                       !.collapse_calls = CallsOfRounds(sizes, rounds),
                       !.min_pair = SmallestPair(sizes, rounds)]
       IN  SetFrame(t,
             IF left = 0 THEN Raise(frame, "IndexError", "collapse")
             ELSE [frame EXCEPT
                     !.pc = "rag_final",
                     !.combined_results = IF rounds = 0 THEN @ ELSE <<"<collapsed>">>])
    /\ UNCHANGED <<settings, objects, redis, ncalls, nexpired>>

\* Lines 424-427: a collapse call raises, here the first call of the loop
\* or the call of its last round; the loop is outside the try block, so
\* the exception leaves run_rag_chain as it is.
RagCollapseFail(t, last) ==
    /\ call[t].pc = "rag_collapse"
    /\ CollapseContinues(call[t].result_chunks)
    /\ LET sizes == CollapseLoop(call[t].result_chunks)
           rounds == Len(sizes) - 1
       IN  SetFrame(t, Raise([call[t] EXCEPT
                                !.round_sizes = IF last THEN SubSeq(sizes, 1, rounds)
                                                ELSE <<sizes[1]>>,
                                !.collapse_rounds = IF last THEN rounds - 1 ELSE 0,
                                !.collapse_calls = IF last THEN CallsOfRounds(sizes, rounds)
                                                   ELSE 1],
                             ProviderError, "collapse"))
    /\ UNCHANGED <<settings, objects, redis, ncalls, nexpired>>

\* Lines 437-447: the final reduce call returns the answer.
RagFinalDone(t, answer) ==
    /\ call[t].pc = "rag_final"
    /\ SetFrame(t, Return([call[t] EXCEPT !.reduce_calls = @ + 1], answer, FALSE))
    /\ UNCHANGED <<settings, objects, redis, ncalls, nexpired>>

\* Lines 448-450: the final reduce call raises and is re-raised as RAGError.
RagFinalFail(t) ==
    /\ call[t].pc = "rag_final"
    /\ SetFrame(t, Raise([call[t] EXCEPT !.reduce_calls = @ + 1], "RAGError", "reduce"))
    /\ UNCHANGED <<settings, objects, redis, ncalls, nexpired>>

(***************************************************************************)
(* run_summarization_chain (app/services/email.py).                        *)
(***************************************************************************)
\* Lines 289-312: build the client and the splitter, split the content and
\* issue the map batch (all map calls start together).
SumIssueBatch(frame) ==
    LET model_name == GetModelName(settings)
        split_docs == SplitDocuments(<<frame.content>>)
    IN  [frame EXCEPT !.pc = "sum_map", !.model_name = model_name,
                      !.splitter = GetTextSplitter(model_name),
                      !.split_docs = split_docs,
                      !.pending = 1..Len(split_docs),
                      !.fresh_outputs = [j \in 1..Len(split_docs) |-> None],
                      !.map_calls = Len(split_docs)]

\* Lines 281-283: a task enters the function; with a cache client it first
\* awaits the cached summary.
SumBegin(t, content, redis_client) ==
    /\ call[t].pc \in {"idle", "done"}
    /\ LET frame == [IdleFrame EXCEPT
                        !.pc = "sum_lookup", !.fn = "run_summarization_chain",
                        !.args = [content |-> content],
                        !.content = content, !.redis_client = redis_client]
       IN  SetFrame(t, IF redis_client THEN frame ELSE SumIssueBatch(frame))
    /\ UNCHANGED <<settings, objects, redis, nexpired>>

\* A call of the function, counted.
SumStart(t, content, redis_client) ==
    /\ ncalls < MaxCalls
    /\ ncalls' = ncalls + 1
    /\ SumBegin(t, content, redis_client)

\* Lines 283-286: a cached summary is returned with from_cache = True,
\* otherwise the summarization runs.
SumLookup(t) ==
    /\ call[t].pc = "sum_lookup"
    /\ LET cached_summary == RedisGet(SummaryCacheKey(call[t].content))
           frame == [call[t] EXCEPT !.prior = cached_summary]
       IN  SetFrame(t, IF Truthy(cached_summary)
                       THEN Return(frame, cached_summary, TRUE)
                       ELSE SumIssueBatch(frame))
    /\ UNCHANGED <<settings, objects, redis, ncalls, nexpired>>

\* Lines 310-313: the map call of chunk j completes; once abatch has
\* returned the outputs are joined for the reduce.
SumMapCallDone(t, j, out) ==
    /\ call[t].pc = "sum_map"
    /\ j \in call[t].pending
    /\ LET frame == [call[t] EXCEPT !.pending = @ \ {j}, !.fresh_outputs[j] = out]
       IN  SetFrame(t, IF frame.pending = {}
                       THEN [frame EXCEPT
                               !.pc = "sum_reduce",
                               !.combined_results = Join(SumSeparator, frame.fresh_outputs)]
                       ELSE frame)
    /\ UNCHANGED <<settings, objects, redis, ncalls, nexpired>>

\* Lines 323-325: a map call raises inside the try block.
SumMapCallFail(t, j) ==
    /\ call[t].pc = "sum_map"
    /\ j \in call[t].pending
    /\ SetFrame(t, Raise(call[t], "SummarizationError", "map"))
    /\ UNCHANGED <<settings, objects, redis, ncalls, nexpired>>

\* Lines 314-322: the reduce call returns the summary; without a cache
\* client it is returned at once.
SumReduceDone(t, summary) ==
    /\ call[t].pc = "sum_reduce"
    /\ LET frame == [call[t] EXCEPT !.reduce_calls = @ + 1, !.result = summary]
       IN  SetFrame(t, IF frame.redis_client
                       THEN [frame EXCEPT !.pc = "sum_store"]
                       ELSE Return(frame, summary, FALSE))
    /\ UNCHANGED <<settings, objects, redis, ncalls, nexpired>>

\* Lines 323-325: the reduce call raises inside the try block.
SumReduceFail(t) ==
    /\ call[t].pc = "sum_reduce"
    /\ SetFrame(t, Raise([call[t] EXCEPT !.reduce_calls = @ + 1],
                         "SummarizationError", "reduce"))
    /\ UNCHANGED <<settings, objects, redis, ncalls, nexpired>>

\* Lines 318-322: store the summary under the content's key and return it.
SumStore(t) ==
    /\ call[t].pc = "sum_store"
    /\ redis' = RedisSet(redis, SummaryCacheKey(call[t].content), call[t].result,
                         CACHE_EXPIRATION_SECONDS)
    /\ SetFrame(t, Return(call[t], call[t].result, FALSE))
    /\ UNCHANGED <<settings, objects, ncalls, nexpired>>

(***************************************************************************)
(* POST /messages/{message_id}/summary (app/routes/messages.py).           *)
(***************************************************************************)
MessageIds == {"m1", "m2"}

\* What the repository does for get_message: it raises one of these errors
\* or returns the email.
FetchOutcomes == {"EmailNotFoundError", "GraphApiError", "Exception", "content"}

\* EmailNotFoundError(message_id).message (app/exceptions.py, line 12), as
\* the pieces of the formatted text.
EmailNotFoundMessage(message_id) ==
    <<"Email with message_id '">> \o message_id \o <<"' not found.">>

\* fetch_email_content (app/services/email.py, lines 204-238): the content,
\* or EmailNotFoundError for every exception raised inside the try block.
FetchEmailContent(msg_id, fetch) ==
    IF fetch = "content"
    THEN [raises |-> NoError, message |-> <<>>]
    ELSE [raises |-> "EmailNotFoundError",
          message |-> EmailNotFoundMessage(
              <<"Email not found or could not be processed: ", msg_id>>)]

\* What line 74 of the handler gets from services.fetch_email_content: the
\* function above, or (stub) a replacement that raises the error itself, as
\* tests/test_messages_endpoints.py patches it.
FetchCall(message_id, fetch, stub) ==
    IF ~stub THEN FetchEmailContent(message_id, fetch)
    ELSE IF fetch = "EmailNotFoundError"
    THEN [raises |-> fetch, message |-> EmailNotFoundMessage(<<message_id>>)]
    ELSE [raises |-> fetch, message |-> <<"Test error">>]

Contains(detail, piece) == \E n \in 1..Len(detail) : detail[n] = piece

\* Lines 68-123: the handler's try block and its except clauses.  The
\* content, when fetch_email_content returns it, is a str that line 74
\* awaits, which raises TypeError inside the try block.
SummarizeMessageResponse(message_id, fetch, stub) ==
    LET got == FetchCall(message_id, fetch, stub)
        raised == IF got.raises = NoError THEN "TypeError" ELSE got.raises
    IN  IF raised = "EmailNotFoundError"
        THEN [status |-> 404, detail |-> got.message]
        ELSE IF raised = "SummarizationError"
        THEN [status |-> 500, detail |-> <<"Failed to summarize email: ">> \o got.message]
        ELSE [status |-> 500, detail |-> <<"An unexpected error occurred">>]

SummarizeMessage(t, message_id, fetch, stub) ==
    /\ call[t].pc \in {"idle", "done"}
    /\ ncalls < MaxCalls
    /\ stub => fetch # "content"
    /\ ncalls' = ncalls + 1
    /\ SetFrame(t, [IdleFrame EXCEPT
                      !.pc = "done", !.fn = "summarize_message",
                      !.message_id = message_id, !.fetch = fetch, !.stub = stub,
                      !.response = SummarizeMessageResponse(message_id, fetch, stub)])
    /\ UNCHANGED <<settings, objects, redis, nexpired>>

(***************************************************************************)
(* Redis: an entry written with ex=ttl disappears when its TTL is over.    *)
(***************************************************************************)
RedisExpire(key) ==
    /\ key \in DOMAIN redis
    /\ nexpired < MaxExpiries
    /\ nexpired' = nexpired + 1
    /\ redis' = [k \in DOMAIN redis \ {key} |-> redis[k]]
    /\ UNCHANGED <<settings, objects, call, ncalls>>

\* The steps of a running run_rag_chain call.
RagSteps(t) ==
    \/ RagLookup(t)
    \/ \E j \in 1..MaxChunks, out \in MapOutputs : RagMapCallDone(t, j, out)
    \/ \E j \in 1..MaxChunks : RagMapCallFail(t, j)
    \/ RagPersist(t)
    \/ RagCollapse(t)
    \/ \E last \in BOOLEAN : RagCollapseFail(t, last)
    \/ \E answer \in AnswerOutputs : RagFinalDone(t, answer)
    \/ RagFinalFail(t)

RagNext(t) ==
    \/ \E q \in Questions, docs \in ContextDocLists, rc \in BOOLEAN : RagStart(t, q, docs, rc)
    \/ RagSteps(t)

SumNext(t) ==
    \/ \E content \in PageContents, rc \in BOOLEAN : SumStart(t, content, rc)
    \/ SumLookup(t)
    \/ \E j \in 1..MaxChunks, out \in SummaryMapOutputs : SumMapCallDone(t, j, out)
    \/ \E j \in 1..MaxChunks : SumMapCallFail(t, j)
    \/ \E summary \in SummaryOutputs : SumReduceDone(t, summary)
    \/ SumReduceFail(t)
    \/ SumStore(t)

RouteNext(t) ==
    \E message_id \in MessageIds, fetch \in FetchOutcomes, stub \in BOOLEAN :
        SummarizeMessage(t, message_id, fetch, stub)

Next ==
    \/ RagNext("t1")
    \/ SumNext("t1")
    \/ RouteNext("t1")
    \/ \E key \in DOMAIN redis : RedisExpire(key)

Spec == Init /\ [][Next]_vars

\* The service answering run_rag_chain calls only, all with the same
\* question, within the TTL of the cache entries they store.
RagOnlyNext ==
    \/ \E docs \in ContextDocLists, rc \in BOOLEAN : RagStart("t1", "q", docs, rc)
    \/ RagSteps("t1")

RagSpec == Init /\ [][RagOnlyNext]_vars

(***************************************************************************)
(* Properties.                                                             *)
(***************************************************************************)
RagFrames == {call[t] : t \in {u \in Tasks : call[u].fn = "run_rag_chain"}}
SumFrames == {call[t] : t \in {u \in Tasks : call[u].fn = "run_summarization_chain"}}
RouteFrames == {call[t] : t \in {u \in Tasks : call[u].fn = "summarize_message"}}

IsBlankText(s) == s \in {"", " "}

\* The texts of a sequence that are not blank, in the order of the sequence.
RECURSIVE Kept(_)
Kept(outs) ==
    IF outs = <<>> THEN <<>>
    ELSE IF IsBlankText(Head(outs)) THEN Kept(Tail(outs))
    ELSE <<Head(outs)>> \o Kept(Tail(outs))

\* The pieces of a sequence, one separator between neighbours.
Interleaved(parts) ==
    [n \in 1..(IF parts = <<>> THEN 0 ELSE 2 * Len(parts) - 1) |->
        IF n % 2 = 1 THEN parts[(n + 1) \div 2] ELSE RagSeparator]

\* Every chunk of the call has its excerpt (from the cache or from its map call).
MapStageOver(f) == \A k \in 1..Len(f.chunk_out) : f.chunk_out[k] # None

\* C1: the excerpt text handed to the reduce stage of run_rag_chain is the
\* non-blank map outputs joined in the order of the input chunks, whatever
\* the mix of cache hits and misses and the completion order of the calls.
C1_ExcerptsInChunkOrder ==
    \A f \in RagFrames :
        f.map_results # <<>> => f.excerpts = Interleaved(Kept(f.chunk_out))

\* C2: with a cache client, a call on content whose summary no earlier call
\* has stored returns (s, False) after one set of LLM calls, and a call on
\* content whose summary s an earlier call stored (TTL not over) returns
\* (s, True) without any LLM call, for every summary text s.
C2_MissThenHit ==
    \A f \in SumFrames :
        (f.pc = "done" /\ f.redis_client) =>
            /\ (f.prior = None /\ f.error = NoError) =>
                   /\ f.from_cache = FALSE
                   /\ f.map_calls = Len(f.split_docs)
                   /\ f.reduce_calls = 1
            /\ f.prior # None =>
                   /\ f.error = NoError
                   /\ f.result = f.prior
                   /\ f.from_cache = TRUE
                   /\ f.map_calls = 0
                   /\ f.reduce_calls = 0

\* C3: with a cache client, run_rag_chain invokes the map prompt once for
\* each chunk whose key is absent from the cache and for no chunk whose key
\* an earlier call has stored.
C3_MapOnlyForAbsentKeys ==
    \A f \in RagFrames :
        f.redis_client =>
            /\ \A j \in 1..Len(f.batch_inputs) : f.batch_inputs[j].absent
            /\ f.pc \notin {"rag_lookup"} => f.map_calls = Len(f.batch_inputs)

\* C4: run_rag_chain with zero documents, or with documents whose map
\* outputs are all empty or whitespace-only, returns the sentinel as a
\* normal result and never invokes the collapse or the final reduce prompt;
\* with zero documents it makes no LLM call at all.
C4_NoExcerptsGivesSentinel ==
    \A f \in RagFrames :
        /\ (f.pc \notin {"rag_lookup", "rag_map"} /\ MapStageOver(f)
              /\ \A k \in 1..Len(f.chunk_out) : IsBlankText(f.chunk_out[k])) =>
                /\ f.collapse_calls = 0
                /\ f.reduce_calls = 0
                /\ f.pc \in {"rag_persist", "done"}
                /\ f.pc = "done" => (f.result = Sentinel /\ f.error = NoError)
        /\ f.context_docs = <<>> =>
                /\ f.pc = "done" /\ f.result = Sentinel /\ f.error = NoError
                /\ f.map_calls = 0 /\ f.collapse_calls = 0 /\ f.reduce_calls = 0

W_C4_WhitespaceOnly ==
    \E f \in RagFrames :
        /\ f.pc = "done" /\ f.result = Sentinel
        /\ \E k \in 1..Len(f.chunk_out) : f.chunk_out[k] = " "

\* The smallest r with 2^r >= n.
RECURSIVE CeilLog2From(_, _, _)
CeilLog2From(n, r, pow) == IF pow >= n THEN r ELSE CeilLog2From(n, r + 1, 2 * pow)
CeilLog2(n) == CeilLog2From(n, 0, 1)

\* C5: when the combined map output exceeds the budget and is split into
\* n >= 1 chunks, the collapse loop ends after ceil(log2(n)) rounds with one
\* chunk left, each round turns k chunks into ceil(k/2), and no collapse or
\* reduce call receives an empty set of excerpts.
C5_CollapseTerminates ==
    \A f \in RagFrames :
        /\ (f.initial_chunks >= 1 /\ f.pc \in {"rag_final", "done"}
              /\ f.failed_stage # "collapse") =>
                /\ f.collapse_rounds = CeilLog2(f.initial_chunks)
                /\ f.result_chunks = 1
                /\ Len(f.round_sizes) = f.collapse_rounds + 1
                /\ f.round_sizes[1] = f.initial_chunks
        /\ \A r \in 1..(Len(f.round_sizes) - 1) :
                /\ f.round_sizes[r] > 1
                /\ 2 * f.round_sizes[r + 1] \in {f.round_sizes[r], f.round_sizes[r] + 1}
        /\ f.collapse_calls > 0 => (f.failed_stage = "collapse" \/ f.min_pair >= 1)
        /\ f.reduce_calls > 0 => Len(f.combined_results) >= 1
        /\ f.pc = "rag_final" => Len(f.combined_results) >= 1

W_C5_SeveralRounds ==
    \E f \in RagFrames :
        /\ f.pc = "done" /\ f.error = NoError
        /\ f.initial_chunks >= 3 /\ f.collapse_rounds >= 2 /\ f.result_chunks = 1

\* C6: every non-sentinel answer of run_rag_chain is the output of exactly
\* one final synthesis call made after the collapse rounds are over; within
\* the budget no collapse call is made, and beyond twice the budget the
\* collapse loop runs more than one round before the final call.
C6_OneFinalCall ==
    \A f \in RagFrames :
        /\ (f.pc = "done" /\ f.error = NoError /\ f.map_results # <<>>) =>
                /\ f.reduce_calls = 1
                /\ f.result \in AnswerOutputs
        /\ (f.pc = "done" /\ f.error = NoError /\ f.map_results = <<>>) =>
                f.reduce_calls = 0
        /\ f.reduce_calls <= 1
        /\ f.reduce_calls = 1 =>
                /\ f.pc = "done"
                /\ f.result_chunks <= 1
                /\ f.estimated_tokens <= f.token_limit => f.collapse_calls = 0
                /\ f.estimated_tokens > 2 * f.token_limit => f.collapse_rounds > 1
        /\ (f.pc \in {"rag_final", "done"} /\ f.map_results # <<>>
              /\ f.estimated_tokens <= f.token_limit) => f.collapse_calls = 0

W_C6_CollapsedThenAnswered ==
    \E f \in RagFrames :
        /\ f.pc = "done" /\ f.result \in AnswerOutputs /\ f.reduce_calls = 1
        /\ f.estimated_tokens > 2 * f.token_limit /\ f.collapse_rounds > 1

\* C7: for every model profile of the context-window table and for the
\* fallback budget, the chunk parameters satisfy 0 < chunk_size <= 8192,
\* overlap < chunk_size and chunk_size <= context_window.
C7_ChunkParameters ==
    \A t \in Tasks :
        call[t].fn \in {"run_rag_chain", "run_summarization_chain"}
          /\ call[t].model_name # "" =>
            LET params == call[t].splitter.params
            IN  /\ 0 < params.chunk_size
                /\ params.chunk_size <= 8192
                /\ params.overlap < params.chunk_size
                /\ params.chunk_size <= params.ctx_window

W_C7_FallbackBudget ==
    \E t \in Tasks :
        /\ call[t].model_name = "llama2"
        /\ call[t].splitter.params.ctx_window = 16000
        /\ call[t].splitter.params.chunk_size = 320

\* C8: if the LLM call of one chunk fails in the map stage of run_rag_chain,
\* the call ends in an error: the failed chunk is not treated as an empty
\* extraction and no answer is built from the other chunks.
C8_MapFailureEndsCall ==
    \A f \in RagFrames :
        f.failed_stage = "map" =>
            /\ f.pc = "done"
            /\ f.error # NoError
            /\ f.result = None
            /\ f.collapse_calls = 0
            /\ f.reduce_calls = 0
            /\ \E j \in 1..Len(f.fresh_outputs) : f.fresh_outputs[j] = None

W_C8_OtherChunkDone ==
    \E f \in RagFrames :
        /\ f.failed_stage = "map"
        /\ \E j \in 1..Len(f.fresh_outputs) : f.fresh_outputs[j] = "x"

\* C9: every LLM call failure reaches the caller as the typed generation
\* error with status 500: RAGError from run_rag_chain (map, collapse or
\* final reduce call), SummarizationError from run_summarization_chain (map
\* or reduce call).
C9_TypedGenerationError ==
    \A t \in Tasks :
        call[t].failed_stage \in {"map", "collapse", "reduce"} =>
            /\ call[t].fn = "run_rag_chain" => call[t].error = "RAGError"
            /\ call[t].fn = "run_summarization_chain" => call[t].error = "SummarizationError"
            /\ StatusCode(call[t].error) = 500

\* C10: POST /messages/{message_id}/summary answers 404 with a detail that
\* contains the message id when the fetch fails with the not-found error,
\* and 502 when it fails with a Graph API error.
C10_FetchErrorMapping ==
    \A f \in RouteFrames :
        /\ f.fetch = "EmailNotFoundError" =>
              (f.response.status = 404 /\ Contains(f.response.detail, f.message_id))
        /\ f.fetch = "GraphApiError" => f.response.status = 502

(***************************************************************************)
(* EmailRepository (app/graph/email_repository.py).                        *)
(***************************************************************************)
RepositoryOperations == {"get_message", "list_messages", "list_attachments", "get_attachment"}

\* What the Graph API answers to requests.get: the status code of the
\* response, or 0 when requests raises without a response (no connection).
UpstreamStatuses == {0, 200, 400, 401, 404, 500, 503}

\* response.raise_for_status(): HTTPError for 4xx and 5xx responses.
RaisesForStatus(status_code) == status_code >= 400 /\ status_code < 600

\* The operations whose try block ends with `except Exception` (lines
\* 54-56 and 121-123); list_attachments and get_attachment have none.
HandlesGeneric(op) == op \in {"get_message", "list_messages"}

\* Variant of OnNotFound that raises the not-found error in every operation.
OnNotFoundAlwaysRaises(op) == "EmailNotFoundError"

\* What the except clause of an operation does with a 404 response: lines
\* 51-52 and 179-180 raise EmailNotFoundError, line 120 raises
\* GraphApiError (no test of the status code), lines 149-153 return [].
OnNotFound(op) ==
    CASE op = "get_message" -> "EmailNotFoundError"
      [] op = "get_attachment" -> "EmailNotFoundError"
      [] op = "list_messages" -> "GraphApiError"
      [] op = "list_attachments" -> "return []"

\* One operation of the repository: _get_auth_headers, then the request
\* inside the try block.  The outcome is [error, result].
RepositoryOutcome(op, token_ok, status_code, body_valid) ==
    IF ~token_ok
    THEN [error |-> "GraphApiError", result |-> None]
    ELSE IF status_code = 0
    THEN [error |-> IF HandlesGeneric(op) THEN "GraphApiError" ELSE "ConnectionError",
          result |-> None]
    ELSE IF RaisesForStatus(status_code)
    THEN IF status_code = 404
         THEN IF OnNotFound(op) = "return []"
              THEN [error |-> NoError, result |-> "[]"]
              ELSE [error |-> OnNotFound(op), result |-> None]
         ELSE [error |-> "GraphApiError", result |-> None]
    ELSE IF ~body_valid
    THEN [error |-> IF HandlesGeneric(op) THEN "GraphApiError" ELSE "ValidationError",
          result |-> None]
    ELSE [error |-> NoError, result |-> "parsed"]

RepositoryCall(t, op, message_id, token_ok, status_code, body_valid) ==
    /\ call[t].pc \in {"idle", "done"}
    /\ ncalls < MaxCalls
    /\ ncalls' = ncalls + 1
    /\ LET outcome == RepositoryOutcome(op, token_ok, status_code, body_valid)
       IN  SetFrame(t, [IdleFrame EXCEPT
                          !.pc = "done", !.fn = "EmailRepository",
                          !.message_id = message_id,
                          !.args = [op |-> op, token_ok |-> token_ok,
                                    status_code |-> status_code,
                                    body_valid |-> body_valid],
                          !.error = outcome.error, !.result = outcome.result])
    /\ UNCHANGED <<settings, objects, redis, nexpired>>

RepositoryNext ==
    \E op \in RepositoryOperations, message_id \in MessageIds, token_ok \in BOOLEAN,
       status_code \in UpstreamStatuses, body_valid \in BOOLEAN :
        RepositoryCall("t1", op, message_id, token_ok, status_code, body_valid)

RepositorySpec == Init /\ [][RepositoryNext]_vars

RepositoryFrames == {call[t] : t \in {u \in Tasks : call[u].fn = "EmailRepository"}}

\* A frame of an operation that got an error response from the Graph API.
GotErrorResponse(f) == f.args.token_ok /\ RaisesForStatus(f.args.status_code)

\* C11 as stated: for every operation of EmailRepository an upstream 404
\* surfaces as the not-found error (status 404) and every other non-2xx
\* response as the upstream error (status 502).
C11_Original ==
    \A f \in RepositoryFrames :
        GotErrorResponse(f) =>
            IF f.args.status_code = 404
            THEN f.error = "EmailNotFoundError" /\ StatusCode(f.error) = 404
            ELSE f.error = "GraphApiError" /\ StatusCode(f.error) = 502

\* C11 as amended: get_message and get_attachment surface an upstream 404 as
\* the not-found error (status 404); list_messages surfaces it as the
\* upstream error (status 502) and list_attachments returns an empty list;
\* every other 4xx or 5xx response surfaces as the upstream error (status
\* 502) in all four operations.
C11_RepositoryErrorMapping ==
    \A f \in RepositoryFrames :
        GotErrorResponse(f) =>
            IF f.args.status_code # 404
            THEN f.error = "GraphApiError" /\ StatusCode(f.error) = 502
            ELSE CASE f.args.op \in {"get_message", "get_attachment"} ->
                        f.error = "EmailNotFoundError" /\ StatusCode(f.error) = 404
                   [] f.args.op = "list_messages" ->
                        f.error = "GraphApiError" /\ StatusCode(f.error) = 502
                   [] f.args.op = "list_attachments" ->
                        f.error = NoError /\ f.result = "[]"

W_C11_AttachmentListNotFound ==
    \E f \in RepositoryFrames :
        /\ f.args.op = "list_attachments" /\ f.args.token_ok
        /\ f.args.status_code = 404 /\ f.result = "[]"

(***************************************************************************)
(* TokenValidator (app/auth/validator.py).                                 *)
(***************************************************************************)
\* A bearer token, by what the JWT library finds in it: whether the JWKS
\* holds the key its header names, whether the signature verifies, and
\* whether its exp, aud and iss claims pass.
Tokens ==
    [kid_known : BOOLEAN, signature_ok : BOOLEAN, expired : BOOLEAN,
     aud_ok : BOOLEAN, iss_ok : BOOLEAN]

\* jwt.decode validates the claims only once the signature has verified;
\* the exceptions it may raise for the claims of a token (the order of its
\* claim checks is the library's).
ClaimErrors(token) ==
    (IF token.expired THEN {"ExpiredSignatureError"} ELSE {})
      \cup (IF token.aud_ok THEN {} ELSE {"InvalidAudienceError"})
      \cup (IF token.iss_ok THEN {} ELSE {"InvalidIssuerError"})

\* Lines 62-71: what the try block of validate_token raises (NoError when
\* jwt.decode returns the claims).
DecodeErrors(token) ==
    IF ~token.kid_known THEN {"PyJWKClientError"}
    ELSE IF ~token.signature_ok THEN {"InvalidSignatureError"}
    ELSE IF ClaimErrors(token) = {} THEN {NoError}
    ELSE ClaimErrors(token)

\* Variant of TokenRejection whose generic clause comes first.
TokenRejectionGenericFirst(raised) ==
    [status |-> 401, detail |-> <<"Invalid token: ", raised>>]

\* Lines 74-85: the except clauses of validate_token.
TokenRejection(raised) ==
    CASE raised = "ExpiredSignatureError" ->
            [status |-> 401, detail |-> <<"Token has expired">>]
      [] raised = "InvalidAudienceError" ->
            [status |-> 401, detail |-> <<"Invalid token audience">>]
      [] raised = "InvalidIssuerError" ->
            [status |-> 401, detail |-> <<"Invalid token issuer">>]
      [] OTHER ->
            [status |-> 401, detail |-> <<"Invalid token: ", raised>>]

\* Lines 21-43: load_keys fetches the OIDC metadata and builds the JWKS
\* client; every failure is answered with status 500.
KeysNotLoaded == [status |-> 500,
                  detail |-> <<"Could not fetch authentication keys from provider.">>]

\* Variant of NeedsLoad that loads the keys on every call.
NeedsLoadAlways(jwks_client) == TRUE

\* Lines 58 and 24: "if not self.jwks_client" guards the call of load_keys,
\* "if self.jwks_client: return" guards the fetch inside it.
NeedsLoad(jwks_client) == jwks_client = None

\* Lines 45-85: validate_token; load_ok tells whether the metadata fetch of
\* load_keys succeeds if it is made, raised is what the try block raises.
ValidateToken(t, token, load_ok, raised) ==
    /\ call[t].pc \in {"idle", "done"}
    /\ ncalls < MaxCalls
    /\ ncalls' = ncalls + 1
    /\ raised \in DecodeErrors(token)
    /\ LET loaded == ~NeedsLoad(objects.validator.jwks_client)
           frame == [IdleFrame EXCEPT
                        !.pc = "done", !.fn = "validate_token",
                        !.fetch = IF loaded THEN "-" ELSE "metadata",
                        !.args = [token |-> token, load_ok |-> load_ok,
                                  loaded |-> loaded, raised |-> raised]]
       IN  IF ~loaded /\ ~load_ok
           THEN /\ SetFrame(t, [frame EXCEPT !.error = "HTTPException",
                                             !.response = KeysNotLoaded])
                /\ UNCHANGED objects
           ELSE /\ objects' = [objects EXCEPT !.validator.jwks_client = "PyJWKClient"]
                /\ SetFrame(t, IF raised = NoError
                               THEN [frame EXCEPT !.result = "decoded_token"]
                               ELSE [frame EXCEPT !.error = "HTTPException",
                                                  !.response = TokenRejection(raised)])
    /\ UNCHANGED <<settings, redis, nexpired>>

ValidatorNext ==
    \E token \in Tokens, load_ok \in BOOLEAN, raised \in
          {NoError, "PyJWKClientError", "InvalidSignatureError", "ExpiredSignatureError",
           "InvalidAudienceError", "InvalidIssuerError"} :
        ValidateToken("t1", token, load_ok, raised)

ValidatorSpec == Init /\ [][ValidatorNext]_vars

ValidatorFrames == {call[t] : t \in {u \in Tasks : call[u].fn = "validate_token"}}

\* The call ran with signing keys loaded (before it or by it).
KeysLoaded(f) == f.args.loaded \/ f.args.load_ok

TokenValid(token) ==
    /\ token.kid_known /\ token.signature_ok
    /\ ~token.expired /\ token.aud_ok /\ token.iss_ok

\* C12: once signing keys are loaded, validate_token returns the decoded
\* claims only when signature, expiry, audience and issuer all check out,
\* and otherwise rejects with status 401 and a detail of its own per case:
\* expired, wrong audience, wrong issuer, and "Invalid token: ..." for any
\* other failure; a specific case never gets the generic message.
C12_TokenRejections ==
    \A f \in ValidatorFrames :
        KeysLoaded(f) =>
            LET token == f.args.token
                verified == token.kid_known /\ token.signature_ok
                generic == f.response.detail[1] = "Invalid token: "
            IN  /\ f.result = "decoded_token" => (TokenValid(token) /\ f.error = NoError)
                /\ TokenValid(token) => f.result = "decoded_token"
                /\ ~TokenValid(token) =>
                      /\ f.result = None /\ f.response.status = 401
                      /\ (verified /\ token.expired /\ token.aud_ok /\ token.iss_ok)
                            => f.response.detail = <<"Token has expired">>
                      /\ (verified /\ ~token.expired /\ ~token.aud_ok /\ token.iss_ok)
                            => f.response.detail = <<"Invalid token audience">>
                      /\ (verified /\ ~token.expired /\ token.aud_ok /\ ~token.iss_ok)
                            => f.response.detail = <<"Invalid token issuer">>
                      /\ generic <=> ~verified
                      /\ f.response.detail = <<"Token has expired">> => token.expired
                      /\ f.response.detail = <<"Invalid token audience">> => ~token.aud_ok
                      /\ f.response.detail = <<"Invalid token issuer">> => ~token.iss_ok

W_C12_WrongAudienceRejected ==
    \E f \in ValidatorFrames :
        /\ KeysLoaded(f) /\ f.args.token.signature_ok /\ f.args.token.kid_known
        /\ ~f.args.token.aud_ok
        /\ f.response = [status |-> 401, detail |-> <<"Invalid token audience">>]

(***************************************************************************)
(* Provider configuration (app/config.py) and the provider factories       *)
(* _get_llm (app/services/email.py) and get_embedding_model                *)
(* (app/rag/embedding_service.py).                                         *)
(***************************************************************************)
ProviderValues == {"openai", "gemini", "ollama", "OpenAI", "azure"}

\* str.lower() on the provider values of the model.
Lower(s) == IF s = "OpenAI" THEN "openai" ELSE s

\* The settings an environment can give: the provider value and the
\* optional credentials (None when unset).
EnvSettings ==
    {[DefaultSettings EXCEPT !.LLM_PROVIDER = provider] @@
       [OPENAI_API_KEY |-> openai_key, GOOGLE_API_KEY |-> google_key,
        GOOGLE_APPLICATION_CREDENTIALS |-> credentials, GOOGLE_CLOUD_PROJECT |-> project] :
       provider \in ProviderValues, openai_key \in {None, "sk-1"},
       google_key \in {None, "g-1"}, credentials \in {None, "/sa.json"},
       project \in {None, "proj"}}

\* `a and b` on two optional strings, as a truth value.
UseVertex(s) == Truthy(s.GOOGLE_APPLICATION_CREDENTIALS) /\ Truthy(s.GOOGLE_CLOUD_PROJECT)

\* config.py, lines 114-123: the validation run when the module is
\* imported; NoError when it raises nothing.
ConfigError(s) ==
    IF s.LLM_PROVIDER = "openai" /\ ~Truthy(s.OPENAI_API_KEY)
    THEN "ValueError: OPENAI_API_KEY must be set"
    ELSE IF s.LLM_PROVIDER = "gemini" /\ ~Truthy(s.GOOGLE_API_KEY) /\ ~UseVertex(s)
    THEN "ValueError: GOOGLE_API_KEY or service account must be set"
    ELSE NoError

\* Variant of GetLlm that compares the provider value as it is written.
GetLlmCaseSensitive(s) ==
    LET provider == s.LLM_PROVIDER
    IN  CASE provider = "openai" -> [error |-> NoError, result |-> "ChatOpenAI"]
          [] provider = "gemini" ->
                [error |-> NoError,
                 result |-> IF UseVertex(s) THEN "ChatVertexAI" ELSE "ChatGoogleGenerativeAI"]
          [] provider = "ollama" -> [error |-> NoError, result |-> "ChatOllama"]
          [] OTHER -> [error |-> "ValueError: Unsupported LLM provider", result |-> None]

\* _get_llm (app/services/email.py, lines 149-201).
GetLlm(s) ==
    LET provider == Lower(s.LLM_PROVIDER)
    IN  CASE provider = "openai" -> [error |-> NoError, result |-> "ChatOpenAI"]
          [] provider = "gemini" ->
                [error |-> NoError,
                 result |-> IF UseVertex(s) THEN "ChatVertexAI" ELSE "ChatGoogleGenerativeAI"]
          [] provider = "ollama" -> [error |-> NoError, result |-> "ChatOllama"]
          [] OTHER -> [error |-> "ValueError: Unsupported LLM provider", result |-> None]

\* get_embedding_model (app/rag/embedding_service.py, lines 9-54).
GetEmbeddingModel(s) ==
    LET provider == Lower(s.LLM_PROVIDER)
    IN  CASE provider = "openai" -> [error |-> NoError, result |-> "OpenAIEmbeddings"]
          [] provider = "gemini" ->
                [error |-> NoError,
                 result |-> IF UseVertex(s) THEN "VertexAIEmbeddings"
                            ELSE "GoogleGenerativeAIEmbeddings"]
          [] OTHER -> [error |-> NoError, result |-> "OpenAIEmbeddings"]

\* The process starts with the settings its environment gives.
ConfigInit ==
    /\ settings \in EnvSettings
    /\ redis = <<>>
    /\ call = [t \in Tasks |-> IdleFrame]
    /\ ncalls = 0
    /\ nexpired = 0
    /\ objects = [InitialObjects EXCEPT !.app = "starting"]

\* Importing app.config: the validation raises and the process ends, or the
\* application goes on to serve requests.
ImportConfig ==
    /\ objects.app = "starting"
    /\ objects' = [objects EXCEPT
                     !.app = IF ConfigError(settings) = NoError THEN "serving" ELSE "failed"]
    /\ UNCHANGED <<settings, redis, call, ncalls, nexpired>>

\* A request that builds the chat model or the embedding model.
FactoryCall(t, fn) ==
    /\ objects.app = "serving"
    /\ call[t].pc \in {"idle", "done"}
    /\ ncalls < MaxCalls
    /\ ncalls' = ncalls + 1
    /\ LET outcome == IF fn = "_get_llm" THEN GetLlm(settings)
                      ELSE GetEmbeddingModel(settings)
       IN  SetFrame(t, [IdleFrame EXCEPT !.pc = "done", !.fn = fn,
                                         !.error = outcome.error,
                                         !.result = outcome.result])
    /\ UNCHANGED <<settings, objects, redis, nexpired>>

ConfigNext ==
    \/ ImportConfig
    \/ \E fn \in {"_get_llm", "get_embedding_model"} : FactoryCall("t1", fn)

ConfigSpec == ConfigInit /\ [][ConfigNext]_vars

SupportedProviders == {"openai", "gemini", "ollama"}

\* C13 as stated: "openai" gives the OpenAI client, "gemini" the Vertex
\* client when credentials path and project are both set and the API-key
\* client otherwise, "ollama" the local client, and every other provider
\* value fails with the configuration error "Unsupported LLM provider".
C13_Original ==
    \A t \in Tasks :
        call[t].fn = "_get_llm" =>
            LET provider == settings.LLM_PROVIDER
                f == call[t]
            IN  /\ provider = "openai" => f.result = "ChatOpenAI"
                /\ provider = "gemini" =>
                      f.result = IF UseVertex(settings) THEN "ChatVertexAI"
                                 ELSE "ChatGoogleGenerativeAI"
                /\ provider = "ollama" => f.result = "ChatOllama"
                /\ provider \notin SupportedProviders =>
                      (f.result = None /\ f.error = "ValueError: Unsupported LLM provider")

\* C13 as amended: the same selection with the provider value compared
\* without regard to case; a value that is none of the three in any case
\* fails with the configuration error "Unsupported LLM provider".
C13_ProviderSelection ==
    \A t \in Tasks :
        call[t].fn = "_get_llm" =>
            LET provider == IF settings.LLM_PROVIDER \in {"openai", "OpenAI"} THEN "openai"
                            ELSE settings.LLM_PROVIDER
                f == call[t]
            IN  /\ provider = "openai" => (f.result = "ChatOpenAI" /\ f.error = NoError)
                /\ provider = "gemini" =>
                      /\ f.error = NoError
                      /\ f.result = IF settings.GOOGLE_APPLICATION_CREDENTIALS # None
                                        /\ settings.GOOGLE_CLOUD_PROJECT # None
                                     THEN "ChatVertexAI" ELSE "ChatGoogleGenerativeAI"
                /\ provider = "ollama" => (f.result = "ChatOllama" /\ f.error = NoError)
                /\ provider \notin SupportedProviders =>
                      (f.result = None /\ f.error = "ValueError: Unsupported LLM provider")

W_C13_MixedCaseProvider ==
    \E t \in Tasks :
        /\ call[t].fn = "_get_llm" /\ settings.LLM_PROVIDER = "OpenAI"
        /\ call[t].result = "ChatOpenAI"

\* C14: get_embedding_model fails with a configuration error when the
\* provider value is not a recognised provider, and never returns some
\* provider's embedding model for such a value.
C14_EmbeddingProviderChecked ==
    \A t \in Tasks :
        (call[t].fn = "get_embedding_model"
           /\ Lower(settings.LLM_PROVIDER) \notin SupportedProviders) =>
            (call[t].error # NoError /\ call[t].result = None)

\* C15: loading the configuration fails whenever the provider value is
\* unsupported or the selected provider's required credential is missing,
\* so no request is served, and _get_llm is never reached, with an invalid
\* provider configuration.
C15_InvalidConfigNeverServes ==
    LET provider == Lower(settings.LLM_PROVIDER)
        invalid ==
            \/ provider \notin SupportedProviders
            \/ provider = "openai" /\ settings.OPENAI_API_KEY = None
            \/ provider = "gemini" /\ settings.GOOGLE_API_KEY = None
                 /\ ~(settings.GOOGLE_APPLICATION_CREDENTIALS # None
                        /\ settings.GOOGLE_CLOUD_PROJECT # None)
    IN  invalid =>
            /\ objects.app # "serving"
            /\ \A t \in Tasks : call[t].fn # "_get_llm"

(***************************************************************************)
(* astream_rag_chain (app/services/email.py).                              *)
(***************************************************************************)
\* Line 601: the text yielded when no snippet is left.
AstreamSentinel == "No relevant information found in the provided documents."

\* The tokens of the answers the streamed reduce call may produce.
AnswerStreams == {<<"ans", "wer">>, <<"answer">>}

\* Variant of Snippets that tests the output itself instead of its strip().
RECURSIVE SnippetsNoStrip(_)
SnippetsNoStrip(outs) ==
    IF outs = <<>> THEN <<>>
    ELSE IF Head(outs) # "" THEN <<Head(outs)>> \o SnippetsNoStrip(Tail(outs))
    ELSE SnippetsNoStrip(Tail(outs))

\* Line 598: snippets = [o["out"] for o in map_batch if o["out"].strip()]
RECURSIVE Snippets(_)
Snippets(outs) ==
    IF outs = <<>> THEN <<>>
    ELSE IF Strip(Head(outs)) # "" THEN <<Head(outs)>> \o Snippets(Tail(outs))
    ELSE Snippets(Tail(outs))

\* Lines 598-607: once abatch has returned, the generator yields the
\* sentinel and returns, or joins the snippets and opens the reduce stream.
AfterAstreamMap(frame) ==
    LET snippets == Snippets(frame.fresh_outputs)
        merged == Join(RagSeparator, snippets)
    IN  IF snippets = <<>>
        THEN [frame EXCEPT !.pc = "done", !.map_results = snippets,
                           !.yielded = <<AstreamSentinel>>]
        ELSE [frame EXCEPT !.pc = "astream_reduce", !.map_results = snippets,
                           !.combined_results = merged, !.excerpts = merged,
                           !.reduce_calls = 1]

\* Lines 586-597: build the client and the splitter, split the documents
\* and issue the map batch over every split (all map calls start together).
AstreamStart(t, question, context_docs, redis_client) ==
    /\ call[t].pc \in {"idle", "done"}
    /\ ncalls < MaxCalls
    /\ ncalls' = ncalls + 1
    /\ LET model_name == GetModelName(settings)
           splits == SplitDocuments(context_docs)
           entered == [IdleFrame EXCEPT
                        !.pc = "astream_map", !.fn = "astream_rag_chain",
                        !.args = [context_docs |-> context_docs],
                        !.question = question, !.context_docs = context_docs,
                        !.redis_client = redis_client, !.model_name = model_name,
                        !.splitter = GetTextSplitter(model_name)]
           frame == [CollectSplits(entered, splits) EXCEPT
                        !.pending = 1..Len(splits),
                        !.fresh_outputs = [j \in 1..Len(splits) |-> None],
                        !.chunk_out = [j \in 1..Len(splits) |-> None],
                        !.map_calls = Len(splits)]
       IN  SetFrame(t, IF splits = <<>> THEN AfterAstreamMap(frame) ELSE frame)
    /\ UNCHANGED <<settings, objects, redis, nexpired>>

\* Lines 595-597: the map call of split j completes with output out.
AstreamMapCallDone(t, j, out) ==
    /\ call[t].pc = "astream_map"
    /\ j \in call[t].pending
    /\ LET frame == [call[t] EXCEPT !.pending = @ \ {j},
                                    !.fresh_outputs[j] = out,
                                    !.chunk_out[j] = out]
       IN  SetFrame(t, IF frame.pending = {} THEN AfterAstreamMap(frame) ELSE frame)
    /\ UNCHANGED <<settings, objects, redis, ncalls, nexpired>>

\* Lines 595-597: a map call raises; abatch re-raises it out of the generator.
AstreamMapCallFail(t, j) ==
    /\ call[t].pc = "astream_map"
    /\ j \in call[t].pending
    /\ SetFrame(t, Raise(call[t], ProviderError, "map"))
    /\ UNCHANGED <<settings, objects, redis, ncalls, nexpired>>

\* Line 607: the reduce call starts to stream one of the answers.
AstreamOpen(t, tokens) ==
    /\ call[t].pc = "astream_reduce"
    /\ call[t].stream = <<>> /\ call[t].yielded = <<>>
    /\ SetFrame(t, [call[t] EXCEPT !.stream = tokens])
    /\ UNCHANGED <<settings, objects, redis, ncalls, nexpired>>

\* Variant of AstreamToken that hands the newest token out first.
AstreamTokenNewestFirst(t) ==
    /\ call[t].pc = "astream_reduce"
    /\ call[t].stream # <<>>
    /\ LET frame == [call[t] EXCEPT !.yielded = <<Head(call[t].stream)>> \o @,
                                    !.stream = Tail(@)]
       IN  SetFrame(t, IF frame.stream = <<>> THEN [frame EXCEPT !.pc = "done"] ELSE frame)
    /\ UNCHANGED <<settings, objects, redis, ncalls, nexpired>>

\* Lines 607-608: the next token arrives and is yielded; the generator
\* returns after the last one.
AstreamToken(t) ==
    /\ call[t].pc = "astream_reduce"
    /\ call[t].stream # <<>>
    /\ LET frame == [call[t] EXCEPT !.yielded = Append(@, Head(call[t].stream)),
                                    !.stream = Tail(@)]
       IN  SetFrame(t, IF frame.stream = <<>> THEN [frame EXCEPT !.pc = "done"] ELSE frame)
    /\ UNCHANGED <<settings, objects, redis, ncalls, nexpired>>

\* Line 607: the reduce stream raises, before or between tokens; nothing
\* in the generator catches it.
AstreamReduceFail(t) ==
    /\ call[t].pc = "astream_reduce"
    /\ SetFrame(t, Raise(call[t], ProviderError, "reduce"))
    /\ UNCHANGED <<settings, objects, redis, ncalls, nexpired>>

AstreamSteps(t) ==
    \/ \E j \in 1..MaxChunks, out \in MapOutputs : AstreamMapCallDone(t, j, out)
    \/ \E j \in 1..MaxChunks : AstreamMapCallFail(t, j)
    \/ \E tokens \in AnswerStreams : AstreamOpen(t, tokens)
    \/ AstreamToken(t)
    \/ AstreamReduceFail(t)

\* The service answering astream_rag_chain calls only.
AstreamNext ==
    \/ \E docs \in ContextDocLists, rc \in BOOLEAN : AstreamStart("t1", "q", docs, rc)
    \/ AstreamSteps("t1")

AstreamSpec == Init /\ [][AstreamNext]_vars

\* The service answering run_rag_chain and astream_rag_chain calls, all
\* with the same question, within the TTL of the cache entries.
RagAstreamNext ==
    \/ RagOnlyNext
    \/ AstreamNext

RagAstreamSpec == Init /\ [][RagAstreamNext]_vars

AstreamFrames == {call[t] : t \in {u \in Tasks : call[u].fn = "astream_rag_chain"}}

\* C16: astream_rag_chain whose map stage yields no non-whitespace result
\* yields exactly one item, the sentinel run_rag_chain returns, and then
\* terminates without invoking the reduce prompt.
C16_StreamSentinel ==
    \A f \in AstreamFrames :
        (f.pc # "astream_map" /\ f.failed_stage # "map"
           /\ \A k \in 1..Len(f.chunk_out) : IsBlankText(f.chunk_out[k])) =>
            /\ f.pc = "done" /\ f.error = NoError
            /\ f.yielded = <<Sentinel>>
            /\ f.reduce_calls = 0 /\ f.stream = <<>>

W_C16_BlankSnippets ==
    \E f \in AstreamFrames :
        /\ f.pc = "done" /\ f.yielded = <<Sentinel>>
        /\ \E k \in 1..Len(f.chunk_out) : f.chunk_out[k] = " "

\* The chunks of a call that run_rag_chain would hand to the map prompt
\* with the cache as it is: those whose key holds no usable entry.
ColdChunks(f) ==
    {k \in 1..Len(f.split_docs) :
        ~Truthy(RedisGet(RagCacheKey(f.split_docs[k], f.question)))}

\* C17: astream_rag_chain runs the map stage of run_rag_chain: with the
\* same documents, question and cache it makes the same map invocations
\* (none for a chunk that hits the cache), leaves the cache in the same
\* state (the fresh outputs stored) and hands the same merged excerpts to
\* the reduce.
C17_SameMapStage ==
    \A f \in AstreamFrames :
        f.redis_client =>
            /\ f.pc = "astream_map" /\ f.pending = 1..Len(f.split_docs) =>
                  f.map_calls = Cardinality(ColdChunks(f))
            /\ (f.pc \in {"astream_reduce", "done"} /\ f.error = NoError) =>
                  \A k \in 1..Len(f.split_docs) :
                      RagCacheKey(f.split_docs[k], f.question) \in DOMAIN redis

(***************************************************************************)
(* summarize_email (app/services/email.py).                                *)
(***************************************************************************)
\* Line 254: the providers asked for structured output.
StructuredProviders == {"openai", "gemini"}

EmailSummaryResult == "EmailSummary"
TextSummaryResult == "text summary"
StructuredBuildError == "with_structured_output raised"
FallbackWarning == "Structured output failed, falling back to text"

\* Lines 268-271: the plain chain; its failure is not caught.
PlainChain(frame, plain_ok) ==
    IF plain_ok THEN Return(frame, TextSummaryResult, FALSE)
    ELSE Raise(frame, ProviderError, "plain")

\* Lines 252-271.  build_ok, structured_ok and plain_ok say whether
\* with_structured_output, the structured chain and the plain chain succeed.
SummarizeEmail(t, content, structured, build_ok, structured_ok, plain_ok) ==
    /\ objects.app = "serving"
    /\ call[t].pc \in {"idle", "done"}
    /\ ncalls < MaxCalls
    /\ ncalls' = ncalls + 1
    /\ LET llm == GetLlm(settings)
           frame == [IdleFrame EXCEPT
                        !.fn = "summarize_email", !.content = content,
                        !.args = [structured |-> structured, build_ok |-> build_ok,
                                  structured_ok |-> structured_ok,
                                  plain_ok |-> plain_ok]]
       IN  SetFrame(t,
             IF llm.error # NoError THEN Raise(frame, llm.error, "llm")
             ELSE IF structured /\ settings.LLM_PROVIDER \in StructuredProviders
             THEN IF ~build_ok THEN Raise(frame, StructuredBuildError, "build")
                  ELSE IF structured_ok THEN Return(frame, EmailSummaryResult, FALSE)
                  ELSE PlainChain([frame EXCEPT !.logged = <<FallbackWarning>>,
                                                !.failed_stage = "structured"],
                                  plain_ok)
             ELSE PlainChain(frame, plain_ok))
    /\ UNCHANGED <<settings, objects, redis, nexpired>>

SummarizeNext ==
    \/ ImportConfig
    \/ \E content \in PageContents, structured, build_ok, structured_ok, plain_ok \in BOOLEAN :
          SummarizeEmail("t1", content, structured, build_ok, structured_ok, plain_ok)

SummarizeSpec == ConfigInit /\ [][SummarizeNext]_vars

SummarizeFrames == {call[t] : t \in {u \in Tasks : call[u].fn = "summarize_email"}}

\* C18: summarize_email with structured=True on a provider with structured
\* generation returns the structured result when the structured invocation
\* succeeds; when it fails, while building the structured model or while
\* invoking it, the failure is logged and the plain chain's string is
\* returned instead of an error.
C18_StructuredFallback ==
    \A f \in SummarizeFrames :
        (f.pc = "done" /\ f.args.structured
           /\ settings.LLM_PROVIDER \in StructuredProviders) =>
            /\ (f.args.build_ok /\ f.args.structured_ok) =>
                  (f.error = NoError /\ f.result = EmailSummaryResult)
            /\ (~(f.args.build_ok /\ f.args.structured_ok) /\ f.args.plain_ok) =>
                  /\ f.error = NoError /\ f.result = TextSummaryResult
                  /\ f.logged = <<FallbackWarning>>

(***************************************************************************)
(* fetch_email_content (app/services/email.py), step by step.              *)
(***************************************************************************)
MaxAttachments == 1

\* The calls made inside the try block, in program order.
FetchStages ==
    <<"get_message", "get_full_content", "list_attachments", "get_attachment",
      "parse_content">>

\* What a repository or parser call may raise.
FetchRaised == {"EmailNotFoundError", "GraphApiError", "Exception"}

\* What DocumentParsingService.parse_content gives for an attachment
\* (app/services/document_parser.py, lines 17-59): the text, or None when
\* the content is empty or the parsing failed (the parser catches the
\* failure itself).
ParseOutcomes == {"text", "unparsable"}

\* Variant of WrapFetchError that lets the repository's own upstream error
\* through.
WrapFetchErrorKeepsGraph(raised) ==
    IF raised = "GraphApiError" THEN raised ELSE "EmailNotFoundError"

\* Lines 235-238: except Exception -> raise EmailNotFoundError(...) from e
WrapFetchError(raised) == "EmailNotFoundError"

\* EmailRepository(user_id=user_id), line 217: __init__ of
\* app/graph/email_repository.py takes no argument, so the call raises
\* TypeError; MockEmailRepository() is built without a failure.
RepositoryConstructor(use_mock) == IF use_mock THEN NoError ELSE "TypeError"

\* The first call of the try block that raises, "-" when none does; fails
\* names the call that would raise when reached.
FirstFailure(use_mock, include_attachments, attachments, fails) ==
    IF RepositoryConstructor(use_mock) # NoError THEN "constructor"
    ELSE IF fails \in {"get_message", "get_full_content"} THEN fails
    ELSE IF ~include_attachments THEN "-"
    ELSE IF fails = "list_attachments" THEN fails
    ELSE IF attachments = 0 THEN "-"
    ELSE IF fails \in {"get_attachment", "parse_content"} THEN fails
    ELSE "-"

\* Lines 219-233: the content returned when nothing raises.
FetchedContent(include_attachments, attachments, parse) ==
    IF include_attachments /\ attachments > 0 /\ parse = "text"
    THEN "body+attachment" ELSE "body"

\* Lines 204-238.  use_mock is settings.USE_MOCK_GRAPH_API, attachments the
\* number of attachments the repository lists, parse what the parser gives
\* for them, fails and raised the call that raises (when reached) and its
\* exception.
FetchEmailContentCall(t, msg_id, use_mock, include_attachments, attachments, parse, fails, raised) ==
    /\ call[t].pc \in {"idle", "done"}
    /\ ncalls < MaxCalls
    /\ ncalls' = ncalls + 1
    /\ LET stage == FirstFailure(use_mock, include_attachments, attachments, fails)
           cause == IF stage = "constructor" THEN RepositoryConstructor(use_mock)
                    ELSE raised
           frame == [IdleFrame EXCEPT
                        !.fn = "fetch_email_content", !.message_id = msg_id,
                        !.args = [use_mock |-> use_mock,
                                  include_attachments |-> include_attachments,
                                  attachments |-> attachments, parse |-> parse,
                                  fails |-> fails, raised |-> raised]]
       IN  SetFrame(t,
             IF stage = "-"
             THEN Return(frame, FetchedContent(include_attachments, attachments, parse),
                         FALSE)
             ELSE Raise([frame EXCEPT
                            !.logged = <<"Error fetching email content: ", cause>>],
                        WrapFetchError(cause), stage))
    /\ UNCHANGED <<settings, objects, redis, nexpired>>

FetchNext ==
    \E msg_id \in {"m1"}, use_mock, include_attachments \in BOOLEAN,
       attachments \in 0..MaxAttachments, parse \in ParseOutcomes,
       fails \in {"-"} \cup {FetchStages[k] : k \in DOMAIN FetchStages},
       raised \in FetchRaised :
        FetchEmailContentCall("t1", msg_id, use_mock, include_attachments,
                              attachments, parse, fails, raised)

FetchSpec == Init /\ [][FetchNext]_vars

FetchFrames == {call[t] : t \in {u \in Tasks : call[u].fn = "fetch_email_content"}}

\* The call named by fails is reached and raises.
FailureHit(a) ==
    /\ a.use_mock
    /\ \/ a.fails \in {"get_message", "get_full_content"}
       \/ a.include_attachments /\ a.fails = "list_attachments"
       \/ a.include_attachments /\ a.attachments > 0
            /\ a.fails \in {"get_attachment", "parse_content"}

\* An attachment is reached whose parsing fails inside the parser.
ParseFailed(a) ==
    /\ a.use_mock /\ a.include_attachments /\ a.attachments > 0
    /\ a.fails = "-" /\ a.parse = "unparsable"

MaxTopK == 2

UserIds == {"u1", "u2"}

\* embed_documents / embed_query: the embedding of a text, here a point on
\* a line; the emails e1, e2, e3 lie at 0, 2 and 3.
EmbedDocument(id) == CASE id = "e1" -> 0 [] id = "e2" -> 2 [] OTHER -> 3

QueryEmbeddings == {1, 3}

\* EmailEmbedding.embedding.l2_distance(query_embedding)
L2Distance(a, b) == IF a > b THEN a - b ELSE b - a

\* Variant of AddRows that replaces a stored row with the same id.
AddRowsUpsert(store, emails, user_id) ==
    LET ids == {emails[k] : k \in 1..Len(emails)}
    IN  [error |-> NoError,
         store |-> SelectSeq(store, LAMBDA row : row.id \notin ids)
                   \o [k \in 1..Len(emails) |->
                         [id |-> emails[k], user_id |-> user_id,
                          embedding |-> EmbedDocument(emails[k])]]]

\* add_emails, lines 28-51: nothing for an empty list; otherwise one row
\* per email, inserted by add_all and commit.  id is the primary key of
\* the table (app/rag/models.py, line 27): an id that is already stored
\* makes the commit fail and no row is inserted.
AddRows(store, emails, user_id) ==
    LET stored == {store[k].id : k \in 1..Len(store)}
    IN  IF emails = <<>> THEN [error |-> NoError, store |-> store]
        ELSE IF \E k \in 1..Len(emails) : emails[k] \in stored
        THEN [error |-> "IntegrityError", store |-> store]
        ELSE [error |-> NoError,
              store |-> store \o [k \in 1..Len(emails) |->
                                   [id |-> emails[k], user_id |-> user_id,
                                    embedding |-> EmbedDocument(emails[k])]]]

\* query, lines 66-77: the rows of the user (all rows without a user id),
\* ordered by distance to the query embedding, the first top_k of them.
\* Rows at the same distance come in any order.
QueryResults(store, query_embedding, user_id, top_k) ==
    LET filtered == {k \in 1..Len(store) :
                        ~Truthy(user_id) \/ store[k].user_id = user_id}
        n == Min(top_k, Cardinality(filtered))
        dist(k) == L2Distance(store[k].embedding, query_embedding)
        picks == {r \in [1..n -> filtered] :
                    /\ \A i, j \in 1..n : i < j => (r[i] # r[j] /\ dist(r[i]) <= dist(r[j]))
                    /\ \A k \in filtered \ {r[i] : i \in 1..n} :
                          \A i \in 1..n : dist(r[i]) <= dist(k)}
    IN  {[i \in 1..n |-> store[r[i]]] : r \in picks}


(***************************************************************************)
(* ingest_emails_task (app/tasks.py).                                      *)
(***************************************************************************)
MaxEmails == 2

EmailIds == {"e1", "e2", "e3"}

\* What repo.list_messages may return: up to MaxEmails different emails.
Listings ==
    {l \in UNION {[1..n -> EmailIds] : n \in 0..MaxEmails} :
        \A j, k \in 1..Len(l) : j # k => l[j] # l[k]}

\* What processing one email does: fetch_email_content raises, the cleaner
\* or the construction of the enriched email raises, or the email is built.
ProcessOutcomes == {"fetch_fails", "clean_fails", "ok"}

\* Variant of EnrichKeepsOrder that puts the new email first.
EnrichPrepends(enriched, email) == <<email>> \o enriched

\* Line 56: enriched_emails.append(enriched_email)
EnrichKeepsOrder(enriched, email) == Append(enriched, email)

\* Variant of DbClose that leaves the session as it is.
DbCloseSkipped(frame) == frame

\* Lines 70-71: finally: db.close()
DbClose(frame) == [frame EXCEPT !.db = "closed", !.db_close_calls = @ + 1]

\* The end of a task that raises: the finally clause closes the session.
IngestRaise(frame, error, stage) == DbClose(Raise(frame, error, stage))

\* Lines 60-62 and the way to line 64: nothing enriched returns at once.
AfterLoop(frame) ==
    IF frame.enriched_emails = <<>>
    THEN DbClose([frame EXCEPT
                     !.pc = "done",
                     !.logged = Append(@, "No emails were processed for RAG ingestion."),
                     !.returned = [status |-> "No emails found", ingested_count |-> 0]])
    ELSE [frame EXCEPT !.pc = "ingest_store"]

\* Lines 30-38: open the session, build the repository (the class lines
\* 12-17 chose: EmailRepository takes no user_id and raises TypeError) and
\* list the messages.
IngestStart(t, query, use_mock, listing, list_ok) ==
    /\ call[t].pc \in {"idle", "done"}
    /\ ncalls < MaxCalls
    /\ ncalls' = ncalls + 1
    /\ LET frame == [IdleFrame EXCEPT
                        !.fn = "ingest_emails_task", !.pc = "ingest_loop",
                        !.db = "open", !.i = 1,
                        !.args = [query |-> query, use_mock |-> use_mock]]
       IN  SetFrame(t,
             IF RepositoryConstructor(use_mock) # NoError
             THEN IngestRaise(frame, RepositoryConstructor(use_mock), "constructor")
             ELSE IF ~list_ok THEN IngestRaise(frame, "GraphApiError", "list_messages")
             \* with an empty listing the loop body never runs
             ELSE IF listing = <<>> THEN AfterLoop(frame)
             ELSE [frame EXCEPT !.emails = listing])
    /\ UNCHANGED <<settings, objects, redis, nexpired>>

\* Lines 39-58: one turn of the loop, for the email at position i.
IngestEmail(t, outcome) ==
    /\ call[t].pc = "ingest_loop"
    /\ call[t].i <= Len(call[t].emails)
    /\ LET email == call[t].emails[call[t].i]
           frame == [call[t] EXCEPT
                        !.i = @ + 1,
                        !.chunk_out = Append(@, outcome),
                        !.enriched_emails =
                            IF outcome = "ok" THEN EnrichKeepsOrder(@, email) ELSE @,
                        !.logged =
                            IF outcome = "ok" THEN @
                            ELSE Append(@, email)]
       IN  SetFrame(t, IF frame.i > Len(frame.emails) THEN AfterLoop(frame) ELSE frame)
    /\ UNCHANGED <<settings, objects, redis, ncalls, nexpired>>

\* Lines 64-68 and 70: the enriched emails go to the vector store in one
\* add_emails call and the task returns.
IngestStore(t) ==
    /\ call[t].pc = "ingest_store"
    /\ AddRows(objects.vector_store, call[t].enriched_emails, "u1").error = NoError
    /\ objects' = [objects EXCEPT
                     !.vector_store = AddRows(@, call[t].enriched_emails, "u1").store]
    /\ SetFrame(t, DbClose([call[t] EXCEPT
                       !.pc = "done",
                       !.add_emails_calls = Append(@, call[t].enriched_emails),
                       !.returned = [status |-> "Completed",
                                     ingested_count |-> Len(call[t].enriched_emails)]]))
    /\ UNCHANGED <<settings, redis, ncalls, nexpired>>

\* Lines 64-65: building the vector repository or add_emails raises; the
\* error leaves the task.
IngestStoreFail(t) ==
    /\ call[t].pc = "ingest_store"
    /\ SetFrame(t, IngestRaise([call[t] EXCEPT
                                   !.add_emails_calls = Append(@, call[t].enriched_emails)],
                               "Exception", "add_emails"))
    /\ UNCHANGED <<settings, objects, redis, ncalls, nexpired>>

IngestNext ==
    \/ \E use_mock, list_ok \in BOOLEAN, listing \in Listings :
          IngestStart("t1", "q", use_mock, listing, list_ok)
    \/ \E outcome \in ProcessOutcomes : IngestEmail("t1", outcome)
    \/ IngestStore("t1")
    \/ IngestStoreFail("t1")

IngestSpec == Init /\ [][IngestNext]_vars

IngestFrames == {call[t] : t \in {u \in Tasks : call[u].fn = "ingest_emails_task"}}

\* The emails of a listing whose processing succeeded, in listing order.
RECURSIVE Succeeded(_, _)
Succeeded(listing, outcomes) ==
    IF listing = <<>> \/ outcomes = <<>> THEN <<>>
    ELSE IF Head(outcomes) = "ok"
         THEN <<Head(listing)>> \o Succeeded(Tail(listing), Tail(outcomes))
         ELSE Succeeded(Tail(listing), Tail(outcomes))

\* C20: ingest_emails_task skips an email whose fetch or cleaning fails and
\* goes on: the one add_emails call gets exactly the successfully processed
\* emails in listing order, ingested_count is their number with status
\* 'Completed'; when none was processed successfully the task returns
\* 'No emails found' with count 0 and writes nothing to the vector store.
C20_IngestSkipsFailures ==
    \A f \in IngestFrames :
        LET good == Succeeded(f.emails, f.chunk_out)
        IN  /\ f.pc = "ingest_loop" => (f.error = NoError /\ f.enriched_emails = good)
            /\ Len(f.add_emails_calls) <= 1
            /\ f.add_emails_calls # <<>> => f.add_emails_calls = <<good>> /\ good # <<>>
            /\ (f.pc = "done" /\ f.error = NoError) =>
                  /\ Len(f.chunk_out) = Len(f.emails)
                  /\ IF good = <<>>
                     THEN /\ f.returned = [status |-> "No emails found", ingested_count |-> 0]
                          /\ f.add_emails_calls = <<>>
                     ELSE /\ f.returned = [status |-> "Completed",
                                           ingested_count |-> Len(good)]
                          /\ f.add_emails_calls = <<good>>
            /\ (f.pc = "done" /\ f.add_emails_calls = <<>> /\ ncalls = 1) =>
                  objects.vector_store = <<>>

W_C20_PartialFailure ==
    \E f \in IngestFrames :
        /\ f.pc = "done" /\ f.returned.status = "Completed"
        /\ f.emails = <<"e2", "e1">> /\ f.chunk_out = <<"ok", "fetch_fails">>
        /\ f.add_emails_calls = <<(<<"e2">>)>>

\* C21: ingest_emails_task closes the database session it opened exactly
\* once on every path: normal completion, the early return without emails,
\* and when building the repository, listing the emails or writing to the
\* vector store raises (the error still leaves the task).  Until the task
\* ends the session stays open.
C21_SessionClosedOnce ==
    \A f \in IngestFrames :
        /\ f.pc = "done" => (f.db = "closed" /\ f.db_close_calls = 1)
        /\ f.pc # "done" => (f.db = "open" /\ f.db_close_calls = 0)
        /\ f.failed_stage \in {"constructor", "list_messages", "add_emails"} =>
              (f.pc = "done" /\ f.error # NoError)

W_C21_StoreRaisesSessionClosed ==
    \E f \in IngestFrames :
        /\ f.failed_stage = "add_emails" /\ f.error # NoError
        /\ f.db = "closed" /\ f.db_close_calls = 1

(***************************************************************************)
(* GET /summarize (app/main.py).                                           *)
(***************************************************************************)
\* app.state.redis as lifespan leaves it and as the request finds it: None
\* (no connection at startup), a client whose server answers, or a client
\* whose calls raise ConnectionError.
AppStateRedis == {"none", "up", "down"}

\* Lines 135-195.  The handler calls services.fetch_email_content(msg_id)
\* (line 173); services is the package app/services, whose function needs
\* msg_id and user_id (app/services/email.py, lines 204-208), so the call
\* raises TypeError, which no handler catches: the framework answers 500.
MainSummarizeEmail(t, msg_id, app_state_redis) ==
    /\ call[t].pc \in {"idle", "done"}
    /\ ncalls < MaxCalls
    /\ ncalls' = ncalls + 1
    /\ LET cached_result == IF app_state_redis = "up" THEN RedisGet(msg_id) ELSE None
           frame == [IdleFrame EXCEPT
                        !.fn = "GET /summarize", !.message_id = msg_id,
                        !.args = [redis |-> app_state_redis],
                        !.prior = cached_result,
                        !.logged = IF app_state_redis = "down"
                                   THEN <<"Could not connect to Redis for cache check">>
                                   ELSE <<>>]
       IN  SetFrame(t,
             IF Truthy(cached_result)
             THEN [Return(frame, cached_result, TRUE) EXCEPT
                      !.response = [status |-> 200, detail |-> <<>>]]
             ELSE [Raise(frame, "TypeError", "fetch_email_content") EXCEPT
                      !.response = [status |-> 500,
                                    detail |-> <<"Internal Server Error">>]])
    /\ UNCHANGED <<settings, objects, redis, nexpired>>

\* The service answering GET /summarize while run_summarization_chain
\* calls fill the cache, within the TTL of the entries.
MainNext ==
    \/ \E msg_id \in MessageIds, r \in AppStateRedis : MainSummarizeEmail("t1", msg_id, r)
    \/ SumNext("t1")

MainSpec == Init /\ [][MainNext]_vars

MainFrames == {call[t] : t \in {u \in Tasks : call[u].fn = "GET /summarize"}}

\* C22: GET /summarize with Redis available: a request for a message id
\* that is not cached is answered with cached=false and its summary is
\* stored under the message id; every later request for that id within the
\* TTL, finding the entry, is answered with cached=true and that summary,
\* without fetch_email_content or run_summarization_chain being called.
C22_CachedAfterFirstAnswer ==
    \A f \in MainFrames :
        (f.pc = "done" /\ f.args.redis = "up") =>
            /\ f.response.status = 200
            /\ f.prior = None =>
                  /\ f.from_cache = FALSE
                  /\ f.message_id \in DOMAIN redis
            /\ f.prior # None =>
                  /\ f.from_cache = TRUE /\ f.result = f.prior
                  /\ f.failed_stage = "-"

(***************************************************************************)
(* VectorDBRepository calls.                                               *)
(***************************************************************************)
\* add_emails(emails, user_id=user_id), lines 20-51.
VectorAddEmails(t, emails, user_id) ==
    /\ call[t].pc \in {"idle", "done"}
    /\ LET added == AddRows(objects.vector_store, emails, user_id)
           frame == [IdleFrame EXCEPT
                        !.fn = "add_emails", !.emails = emails,
                        !.args = [user_id |-> user_id,
                                  before |-> objects.vector_store]]
       IN  /\ objects' = [objects EXCEPT !.vector_store = added.store]
           /\ SetFrame(t, IF added.error = NoError
                           THEN [frame EXCEPT !.pc = "done"]
                           ELSE Raise(frame, added.error, "commit"))
    /\ UNCHANGED <<settings, redis, ncalls, nexpired>>

\* query(query, user_id=user_id, top_k=top_k), lines 53-77.
VectorQuery(t, query_embedding, user_id, top_k, results) ==
    /\ call[t].pc \in {"idle", "done"}
    /\ results \in QueryResults(objects.vector_store, query_embedding, user_id, top_k)
    /\ SetFrame(t, [IdleFrame EXCEPT
                       !.pc = "done", !.fn = "query", !.yielded = results,
                       !.args = [user_id |-> user_id, top_k |-> top_k,
                                 query_embedding |-> query_embedding,
                                 table |-> objects.vector_store]])
    /\ UNCHANGED <<settings, objects, redis, ncalls, nexpired>>

VectorNext ==
    \/ \E emails \in Listings \ {<<>>}, user_id \in UserIds :
          VectorAddEmails("t1", emails, user_id)
    \/ \E q \in QueryEmbeddings, user_id \in UserIds \cup {None}, top_k \in 1..MaxTopK :
          \E results \in QueryResults(objects.vector_store, q, user_id, top_k) :
              VectorQuery("t1", q, user_id, top_k, results)

VectorSpec == Init /\ [][VectorNext]_vars

QueryFrames == {call[t] : t \in {u \in Tasks : call[u].fn = "query"}}

\* The rows of a table that belong to a user, in table order.
RowsOf(table, user_id) == SelectSeq(table, LAMBDA row : row.user_id = user_id)

\* A query result is what the rows of one user alone determine: at most
\* top_k of them, no row twice, by increasing distance, and no row left
\* out that is closer than a row returned.
ResultFromOwnRows(f) ==
    LET own == RowsOf(f.args.table, f.args.user_id)
        r == f.yielded
        d(row) == L2Distance(row.embedding, f.args.query_embedding)
    IN  /\ Len(r) = Min(f.args.top_k, Len(own))
        /\ \A i \in 1..Len(r) :
              /\ r[i].user_id = f.args.user_id
              /\ \E k \in 1..Len(own) : own[k] = r[i]
        /\ \A i, j \in 1..Len(r) : i < j => (r[i] # r[j] /\ d(r[i]) <= d(r[j]))
        /\ \A k \in 1..Len(own) :
              (\A i \in 1..Len(r) : r[i] # own[k]) =>
                  \A i \in 1..Len(r) : d(r[i]) <= d(own[k])

\* C23: query with a user id returns at most top_k stored rows, all of that
\* user, by increasing L2 distance to the query embedding; rows added by
\* add_emails under another user id never appear in the result, and an
\* add_emails call of another user leaves the rows the result is taken
\* from as they were.
C23_TenantIsolation ==
    /\ \A f \in QueryFrames :
          f.args.user_id \in UserIds =>
              (Len(f.yielded) <= f.args.top_k /\ ResultFromOwnRows(f))
    /\ \A t \in Tasks :
          call[t].fn = "add_emails" =>
              \A u \in UserIds \ {call[t].args.user_id} :
                  RowsOf(objects.vector_store, u) = RowsOf(call[t].args.before, u)

\* A row of another user lies closer to the query than the row returned.
W_C23_OtherTenantCloser ==
    \E f \in QueryFrames :
        /\ f.args.user_id = "u1" /\ f.yielded # <<>>
        /\ \E k \in 1..Len(f.args.table) :
              /\ f.args.table[k].user_id = "u2"
              /\ L2Distance(f.args.table[k].embedding, f.args.query_embedding)
                   < L2Distance(f.yielded[1].embedding, f.args.query_embedding)

(***************************************************************************)
(* Two request tasks in run_summarization_chain at the same time.          *)
(***************************************************************************)
\* The event loop runs one task up to its next await and then any task
\* that is ready: the steps of the two calls interleave at the awaits (the
\* cache read, the map batch, the cache write).  Both summarize the same
\* content with the cache client; calls are not counted, the state space
\* is finite without it.
RaceNext ==
    \E t \in Tasks :
        \/ SumBegin(t, "ab", TRUE) /\ UNCHANGED ncalls
        \/ SumLookup(t)
        \/ \E j \in 1..MaxChunks, out \in SummaryMapOutputs : SumMapCallDone(t, j, out)
        \/ \E j \in 1..MaxChunks : SumMapCallFail(t, j)
        \/ \E summary \in SummaryOutputs : SumReduceDone(t, summary)
        \/ SumReduceFail(t)
        \/ SumStore(t)

RaceSpec == Init /\ [][RaceNext]_vars

\* A call that found no cache entry and returned its own summary.
ComputedItself(f) ==
    /\ f.fn = "run_summarization_chain" /\ f.pc = "done"
    /\ f.error = NoError /\ f.prior = None

\* C24: two run_summarization_chain calls on the same content that
\* interleave on a cold cache both return with from_cache=False; afterwards
\* the cache holds under the key of the content the summary of one of
\* them (the one that wrote last), and every later call, finding that
\* entry, returns its value with from_cache=True.
C24_RaceLastWriterWins ==
    /\ \A t \in Tasks : ComputedItself(call[t]) => ~call[t].from_cache
    /\ (ComputedItself(call["t1"]) /\ ComputedItself(call["t2"])) =>
          RedisGet(SummaryCacheKey("ab")) \in {call["t1"].result, call["t2"].result}
    /\ \A t \in Tasks :
          (call[t].fn = "run_summarization_chain" /\ call[t].pc = "done"
             /\ call[t].prior # None) =>
              /\ call[t].error = NoError
              /\ call[t].from_cache /\ call[t].result = call[t].prior

(***************************************************************************)
(* The cache under both pipelines.                                         *)
(***************************************************************************)
\* The service answering run_rag_chain calls with any question and
\* run_summarization_chain calls, all using the cache, within the TTL of
\* the entries.
CacheNext ==
    \/ \E q \in Questions, docs \in ContextDocLists : RagStart("t1", q, docs, TRUE)
    \/ RagSteps("t1")
    \/ SumStart("t1", "ab", TRUE)
    \/ SumLookup("t1")
    \/ \E j \in 1..MaxChunks, out \in SummaryMapOutputs : SumMapCallDone("t1", j, out)
    \/ \E j \in 1..MaxChunks : SumMapCallFail("t1", j)
    \/ \E summary \in SummaryOutputs : SumReduceDone("t1", summary)
    \/ SumReduceFail("t1")
    \/ SumStore("t1")

\* The settings do not matter for what is written: the process starts
\* with the default ones.
DefaultInit ==
    /\ settings = DefaultSettings
    /\ redis = <<>>
    /\ call = [t \in Tasks |-> IdleFrame]
    /\ ncalls = 0
    /\ nexpired = 0
    /\ objects = InitialObjects

CacheSpec == DefaultInit /\ [][CacheNext]_vars

\* The entry under key k is written by this step.
Written(k) == k \in DOMAIN redis' /\ (k \notin DOMAIN redis \/ redis'[k] # redis[k])

\* The call of frame f has a finished generation for the content (and
\* question) that k is the key of, with output v, and is about to store it.
GeneratedFor(f, k, v) ==
    \/ /\ f.pc = "rag_persist"
       /\ \E j \in 1..Len(f.batch_inputs) :
             /\ k = RagCacheKey(f.batch_inputs[j].doc, f.question)
             /\ v = f.fresh_outputs[j] /\ v \in MapOutputs
    \/ /\ f.pc = "sum_store"
       /\ k = SummaryCacheKey(f.content)
       /\ v = f.result /\ f.reduce_calls = 1 /\ v \in SummaryOutputs

\* C25: a cache entry is written only after the LLM call that produced its
\* value has succeeded: a step in which run_summarization_chain or the map
\* batch of run_rag_chain fails leaves the cache unchanged, and every
\* value written is the output of a finished generation of the writing
\* call for the content (and question) its key is the hash of.
C25_WrittenAfterSuccess ==
    [][/\ \A t \in Tasks :
             (call[t].error = NoError /\ call'[t].error # NoError) => redis' = redis
       /\ \A k \in DOMAIN redis' :
             Written(k) => \E t \in Tasks : GeneratedFor(call[t], k, redis'[k].value)
      ]_vars

\* A map batch failed after one of its calls had finished, and the cache
\* holds only what an earlier call stored.
W_C25_FailedBatchNothingStored ==
    \E f \in RagFrames :
        /\ f.failed_stage = "map" /\ f.error # NoError
        /\ \E j \in 1..Len(f.fresh_outputs) : f.fresh_outputs[j] # None
        /\ \E j \in 1..Len(f.batch_inputs) : f.batch_inputs[j].hash \notin DOMAIN redis
        /\ redis # <<>>

\* A streaming call has got to its reduce call.
ReachedReduce(f) == f.reduce_calls > 0

\* C26: astream_rag_chain yields no token before the map call of every
\* chunk has finished, then makes exactly one streamed reduce call over all
\* merged excerpts and yields its tokens in arrival order; it never runs a
\* collapse round, whatever the size of the merged excerpts.
C26_StreamAfterMap ==
    \A f \in AstreamFrames :
        /\ (f.pc = "astream_map" \/ f.pending # {}) =>
              (f.yielded = <<>> /\ f.reduce_calls = 0)
        /\ f.reduce_calls <= 1
        /\ f.collapse_calls = 0 /\ f.collapse_rounds = 0
        /\ ReachedReduce(f) =>
              /\ f.pending = {}
              /\ f.excerpts = Join(RagSeparator, Kept(f.chunk_out))
              /\ \/ (f.yielded = <<>> /\ f.stream = <<>>)
                 \/ f.yielded \o f.stream \in AnswerStreams
        /\ (f.pc = "done" /\ f.error = NoError) =>
              IF Kept(f.chunk_out) = <<>> THEN ~ReachedReduce(f)
              ELSE ReachedReduce(f) /\ f.yielded \in AnswerStreams

\* The merged excerpts are beyond the token limit that makes run_rag_chain
\* collapse, and the answer was streamed in two tokens.
W_C26_LongExcerptsStreamed ==
    \E f \in AstreamFrames :
        /\ f.pc = "done" /\ f.yielded = <<"ans", "wer">>
        /\ NeedsCollapse(NumTokens(f.excerpts, EncodingName(f.model_name)),
                         ContextWindow(f.model_name))

(***************************************************************************)
(* _get_text_splitter under configured sizes (app/services/email.py,       *)
(* lines 103-134; app/config.py, lines 84-98).                             *)
(***************************************************************************)
\* RAG_TOKEN_MAX and CHUNK_SIZE_RATIO (in percent) as the environment can
\* set them, the defaults 16000 and 0.02 included.
TokenMaxChoices == {-100, 0, 40, RAG_TOKEN_MAX}
RatioPercentChoices == {-2, 0, CHUNK_SIZE_RATIO_PERCENT}

\* int(x): truncation toward zero of the quotient a / b, b > 0.
IntTrunc(a, b) == IF a >= 0 THEN a \div b ELSE -((-a) \div b)

\* ctx_window = settings.MODEL_CONTEXT_WINDOWS.get(model_name, settings.RAG_TOKEN_MAX)
\* chunk_size = min(8192, int(ctx_window * settings.CHUNK_SIZE_RATIO))
SizedChunkSize(s, model_name) ==
    Min(HardCapChunkSize, IntTrunc(DictGet(MODEL_CONTEXT_WINDOWS, model_name, s.RAG_TOKEN_MAX) * s.CHUNK_SIZE_RATIO_PERCENT, 100))

\* Variant of SizedOverlap without the floor of 32 tokens.
SizedOverlapNoFloor(chunk_size) == Min(DEFAULT_CHUNK_OVERLAP, chunk_size \div 10)

\* overlap = min(settings.DEFAULT_CHUNK_OVERLAP, max(32, chunk_size // 10))
SizedOverlap(chunk_size) == Min(DEFAULT_CHUNK_OVERLAP, Max(MinChunkOverlap, chunk_size \div 10))

\* The arguments _get_text_splitter hands to the splitter's constructor.
SizedTextSplitter(s, model_name) ==
    LET chunk_size == SizedChunkSize(s, model_name)
        overlap == SizedOverlap(chunk_size)
        params == [ctx_window |-> DictGet(MODEL_CONTEXT_WINDOWS, model_name, s.RAG_TOKEN_MAX),
                   chunk_size |-> chunk_size, overlap |-> overlap]
    IN  IF EncodingName(model_name) = "sentencepiece"
        THEN [unit |-> "chars", chunk_size |-> chunk_size * 4,
              chunk_overlap |-> overlap * 4, params |-> params]
        ELSE [unit |-> "tokens", chunk_size |-> chunk_size,
              chunk_overlap |-> overlap, params |-> params]

\* RecursiveCharacterTextSplitter(...) / TokenTextSplitter(...): the
\* constructor refuses an overlap larger than the chunk size with a
\* ValueError.
SplitterConstructor(splitter) ==
    IF splitter.chunk_overlap > splitter.chunk_size THEN "ValueError" ELSE NoError

\* The head of run_summarization_chain (lines 288-293), run_rag_chain
\* (lines 343-353) and astream_rag_chain (lines 586-592) without a cache:
\* the LLM client is built, the splitter is built from the settings, the
\* documents are split and one map call per chunk is issued.
SizedChainHead(t, fn, content) ==
    /\ call[t].pc \in {"idle", "done"}
    /\ LET model_name == GetModelName(settings)
           splitter == SizedTextSplitter(settings, model_name)
           frame == [IdleFrame EXCEPT !.fn = fn, !.content = content,
                                      !.model_name = model_name]
       IN  call' = [call EXCEPT ![t] =
               IF SplitterConstructor(splitter) # NoError
               THEN Raise(frame, SplitterConstructor(splitter), "_get_text_splitter")
               ELSE [frame EXCEPT !.pc = "done", !.splitter = splitter,
                                  !.split_docs = SplitDocument(content),
                                  !.map_calls = Len(SplitDocument(content))]]
    /\ UNCHANGED <<settings, redis, ncalls, nexpired, objects>>

SizerInit ==
    /\ \E s \in SettingsChoices, w \in TokenMaxChoices, r \in RatioPercentChoices :
           settings = [LLM_PROVIDER |-> s.LLM_PROVIDER,
                       OPENAI_MODEL_NAME |-> s.OPENAI_MODEL_NAME,
                       GEMINI_MODEL_NAME |-> s.GEMINI_MODEL_NAME,
                       OLLAMA_MODEL |-> s.OLLAMA_MODEL,
                       RAG_TOKEN_MAX |-> w, CHUNK_SIZE_RATIO_PERCENT |-> r]
    /\ redis = <<>>
    /\ call = [t \in Tasks |-> IdleFrame]
    /\ ncalls = 0
    /\ nexpired = 0
    /\ objects = InitialObjects

SizerNext ==
    \E t \in Tasks, content \in {"ab", "a+ab"} :
        \E fn \in {"run_summarization_chain", "run_rag_chain", "astream_rag_chain"} :
            SizedChainHead(t, fn, content)

SizerSpec == SizerInit /\ [][SizerNext]_vars

ChainsNext ==
    \/ \E docs \in ContextDocLists : RagStart("t1", "q", docs, TRUE)
    \/ RagSteps("t1")
    \/ \E docs \in ContextDocLists : AstreamStart("t1", "q", docs, FALSE)
    \/ AstreamSteps("t1")
    \/ SumNext("t1")

ChainsSpec == DefaultInit /\ [][ChainsNext]_vars

\* C28: at every point of a call of run_rag_chain or astream_rag_chain, and
\* after it has returned or raised, the list the caller passed has the
\* length, order and contents it was passed with; likewise the content
\* passed to run_summarization_chain.
C28_InputsUnchanged ==
    \A t \in Tasks :
        /\ call[t].fn \in {"run_rag_chain", "astream_rag_chain"} =>
               call[t].context_docs = call[t].args.context_docs
        /\ call[t].fn = "run_summarization_chain" =>
               call[t].content = call[t].args.content

\* A RAG call whose document was split in two has failed.
W_C28_FailedCallAfterSplit ==
    \E t \in Tasks :
        /\ call[t].fn \in {"run_rag_chain", "astream_rag_chain"}
        /\ call[t].pc = "done" /\ call[t].error # NoError
        /\ Len(call[t].split_docs) > Len(call[t].context_docs)
        /\ call[t].context_docs # <<>>

(***************************************************************************)
(* get_redis / close_redis (app/database.py).                              *)
(***************************************************************************)
\* Lines 34-36 and 49: get_redis enters; with the global unset it assigns a
\* new client to the global (lines 37-41) and awaits its ping, otherwise it
\* returns the global as it is.
GetRedis(t) ==
    /\ call[t].pc \in {"idle", "done"}
    /\ LET frame == [IdleFrame EXCEPT !.fn = "get_redis",
                                      !.args = [available |-> objects.redis_available]]
       IN  IF objects.redis_client = None
           THEN /\ objects' = [objects EXCEPT !.redis_client = "untested_client"]
                /\ SetFrame(t, [frame EXCEPT !.pc = "ping"])
           ELSE /\ SetFrame(t, Return(frame, objects.redis_client, FALSE))
                /\ UNCHANGED objects
    /\ UNCHANGED <<settings, redis, ncalls, nexpired>>

\* Lines 43-49: the ping completes. A failed ping is logged and None is
\* returned, the global keeps the client; after a successful ping the
\* global is returned.
GetRedisPing(t) ==
    /\ call[t].pc = "ping"
    /\ LET frame == [call[t] EXCEPT !.args = [available |-> objects.redis_available]]
           tested == IF objects.redis_client = None THEN None ELSE "tested_client"
       IN  IF objects.redis_available
           THEN /\ objects' = [objects EXCEPT !.redis_client = tested]
                /\ SetFrame(t, Return(frame, tested, FALSE))
           ELSE /\ SetFrame(t, [Return(frame, None, FALSE) EXCEPT
                                    !.logged = <<"Redis not available">>])
                /\ UNCHANGED objects
    /\ UNCHANGED <<settings, redis, ncalls, nexpired>>

\* Lines 52-60: close_redis closes the client, if any, and unsets the global.
CloseRedis(t) ==
    /\ call[t].pc \in {"idle", "done"}
    /\ SetFrame(t, [IdleFrame EXCEPT !.pc = "done", !.fn = "close_redis"])
    /\ objects' = [objects EXCEPT !.redis_client = None]
    /\ UNCHANGED <<settings, redis, ncalls, nexpired>>

\* The Redis server goes down or comes back.
RedisAvailability ==
    /\ objects' = [objects EXCEPT !.redis_available = ~@]
    /\ UNCHANGED <<settings, redis, call, ncalls, nexpired>>

GetRedisNext ==
    \/ \E t \in Tasks : GetRedis(t)
    \/ \E t \in Tasks : GetRedisPing(t)
    \/ \E t \in Tasks : CloseRedis(t)
    \/ RedisAvailability

GetRedisSpec == Init /\ [][GetRedisNext]_vars

GetRedisFrames == {call[t] : t \in {u \in Tasks : call[u].fn = "get_redis" /\ call[u].pc = "done"}}

\* C29: a get_redis call that returns while Redis is not available returns
\* None, and a returned client is one whose ping has succeeded.
C29_ClientOnlyAfterPing ==
    \A f \in GetRedisFrames :
        /\ ~f.args.available => f.result = None
        /\ f.result # None => f.result = "tested_client"

(***************************************************************************)
(* TokenValidator.load_keys (app/auth/validator.py, lines 21-43).          *)
(***************************************************************************)
\* C30: a validate_token call fetches the OIDC metadata exactly when no
\* JWKS client is loaded as it starts; a failed fetch is answered with
\* status 500 "Could not fetch authentication keys from provider." and
\* leaves the validator without a client, a successful one loads it, and a
\* loaded client is kept.
C30_LoadOnlyWhileUnloaded ==
    [][\A t \in Tasks :
          (ncalls' # ncalls /\ call'[t].fn = "validate_token") =>
              LET f == call'[t]
                  was_loaded == objects.validator.jwks_client # None
                  is_loaded == objects'.validator.jwks_client # None
              IN  /\ (f.fetch = "metadata") <=> ~was_loaded
                  /\ (f.fetch = "metadata" /\ ~f.args.load_ok) =>
                         /\ f.error = "HTTPException" /\ f.response = KeysNotLoaded
                         /\ ~is_loaded
                  /\ (f.fetch = "metadata" /\ f.args.load_ok) => is_loaded
                  /\ was_loaded => is_loaded]_vars

\* The second call fetched the metadata again, because the first call's
\* fetch had failed, and this time loaded the client.
W_C30_RetryAfterFailedLoad ==
    \E t \in Tasks :
        /\ call[t].fn = "validate_token" /\ ncalls = 2
        /\ call[t].fetch = "metadata" /\ call[t].args.load_ok
        /\ objects.validator.jwks_client # None

====
